---------------------------- MODULE Spec2Model ----------------------------
(***************************************************************************)
(* SceneSync: the audio analysis pipeline (feature-extraction worker, its  *)
(* main-thread wrapper, the rule-based classifier, the model loader and    *)
(* the useScenePrediction hook) as a state machine.                        *)
(*                                                                         *)
(* Numbers.  A JavaScript number is a record [k, v]: k = "num" carries the *)
(* value in hundredths (fixed point, v = 100 * x), the other kinds are the *)
(* IEEE specials NaN, +Infinity, -Infinity, and "undef" is a value that is *)
(* not a number at all (typeof x !== 'number').                            *)
(***************************************************************************)
EXTENDS Integers, Sequences, FiniteSets, TLC

\* ------------------------------------------------------------------------
\* Bounds of the model
\* ------------------------------------------------------------------------
MaxFrames == 3
MaxCalls == 2
MaxInits == 2

\* ------------------------------------------------------------------------
\* JavaScript numbers
\* ------------------------------------------------------------------------
Num(x) == [k |-> "num", v |-> x]
FP(x) == Num(100 * x)
NaN == [k |-> "nan", v |-> 0]
PInf == [k |-> "pinf", v |-> 0]
NInf == [k |-> "ninf", v |-> 0]
Undef == [k |-> "undef", v |-> 0]

IsNum(a) == a.k = "num"
\* typeof a === 'number'
TypeofNumber(a) == a.k \in {"num", "nan", "pinf", "ninf"}
\* isNaN(a) for a of type number
IsNaN(a) == a.k = "nan"
\* isFinite(a)
IsFinite(a) == a.k = "num"

FNeg(a) ==
  CASE a.k = "num" -> Num(0 - a.v)
    [] a.k = "pinf" -> NInf
    [] a.k = "ninf" -> PInf
    [] OTHER -> NaN

FAdd(a, b) ==
  CASE a.k = "num" /\ b.k = "num" -> Num(a.v + b.v)
    [] a.k \in {"nan", "undef"} \/ b.k \in {"nan", "undef"} -> NaN
    [] a.k = "num" -> b
    [] b.k = "num" -> a
    [] a.k = b.k -> a
    [] OTHER -> NaN

FSub(a, b) == FAdd(a, FNeg(b))

\* a / n for a count n >= 1
FDivN(a, n) ==
  CASE a.k = "num" -> Num(a.v \div n)
    [] a.k \in {"pinf", "ninf"} -> a
    [] OTHER -> NaN

\* a / b
FDiv(a, b) ==
  CASE a.k \in {"nan", "undef"} \/ b.k \in {"nan", "undef"} -> NaN
    [] a.k = "num" /\ b.k = "num" ->
         IF b.v # 0 THEN Num((a.v * 100) \div b.v)
         ELSE IF a.v > 0 THEN PInf ELSE IF a.v < 0 THEN NInf ELSE NaN
    [] a.k = "num" -> Num(0)
    [] b.k = "num" -> IF b.v >= 0 THEN a ELSE FNeg(a)
    [] OTHER -> NaN

\* a ** 2, in hundredths
FSq(a) ==
  CASE a.k = "num" /\ a.v < 40000 /\ a.v > 0 - 40000 -> Num((a.v * a.v) \div 100)
    [] a.k = "num" -> Num((a.v \div 10) * (a.v \div 10))
    [] a.k \in {"pinf", "ninf"} -> PInf
    [] OTHER -> NaN

RECURSIVE Isqrt(_)
Isqrt(n) ==
  IF n < 2 THEN n
  ELSE LET s == 2 * Isqrt(n \div 4)
       IN IF (s + 1) * (s + 1) > n THEN s ELSE s + 1

\* Math.sqrt(a), in hundredths
FSqrt(a) ==
  CASE a.k = "num" /\ a.v >= 0 /\ a.v < 20000000 -> Num(Isqrt(a.v * 100))
    [] a.k = "num" /\ a.v >= 0 -> Num(10 * Isqrt(a.v))
    [] a.k = "pinf" -> PInf
    [] OTHER -> NaN

\* a > b: false as soon as one side is NaN or not a number
FGt(a, b) ==
  CASE a.k \in {"nan", "undef"} \/ b.k \in {"nan", "undef"} -> FALSE
    [] a.k = "num" /\ b.k = "num" -> a.v > b.v
    [] a.k = "pinf" -> b.k # "pinf"
    [] a.k = "ninf" -> FALSE
    [] OTHER -> b.k = "ninf"

FLt(a, b) == FGt(b, a)
\* a >= b and a <= b (false with NaN on either side)
FGe(a, b) == FGt(a, b) \/ (a.k = b.k /\ a.k # "nan" /\ a.k # "undef" /\ a.v = b.v)
FLe(a, b) == FGe(b, a)

\* Math.max(a, b)
FMax(a, b) ==
  IF a.k \in {"nan", "undef"} \/ b.k \in {"nan", "undef"} THEN NaN
  ELSE IF FGt(b, a) THEN b ELSE a

\* ------------------------------------------------------------------------
\* mean and std of the worker
\* ------------------------------------------------------------------------
RECURSIVE FSum(_)
FSum(arr) == IF arr = <<>> THEN Num(0) ELSE FAdd(arr[1], FSum(Tail(arr)))

mean(arr) == IF Len(arr) = 0 THEN Num(0) ELSE FDivN(FSum(arr), Len(arr))

std(arr) ==
  IF Len(arr) = 0 THEN Num(0)
  ELSE LET m == mean(arr)
           sq == [i \in 1..Len(arr) |-> FSq(FSub(arr[i], m))]
       IN FSqrt(FDivN(FSum(sq), Len(arr)))

RECURSIVE FMaxOf(_, _)
\* arr.reduce((a, b) => Math.max(a, b), init)
FMaxOf(arr, init) ==
  IF arr = <<>> THEN init ELSE FMaxOf(Tail(arr), FMax(init, arr[1]))

\* ------------------------------------------------------------------------
\* Exact fractions (the classifier's scores divided by integers)
\* ------------------------------------------------------------------------
Rat(n, d) == [n |-> n, d |-> d]
RatEq(a, b) == a.n * b.d = b.n * a.d
RatLe(a, b) == a.n * b.d <= b.n * a.d
RatLt(a, b) == a.n * b.d < b.n * a.d

\* arr[i] with the source's 0-based index
At(arr, i) == arr[i + 1]

\* ------------------------------------------------------------------------
\* MLModelService.predict (rule-based classifier)
\* ------------------------------------------------------------------------
\* Object.keys(scores): the insertion order of the literal
SceneLabels ==
  <<"Action & Intensity", "Ambiance & Texture", "Drama & Emotional", "Montage & Narrative">>

LabelSet == {SceneLabels[i] : i \in 1..Len(SceneLabels)}

\* cond ? pts : 0
Pts(cond, pts) == IF cond THEN pts ELSE 0

PredictScores(tempo, rms_mean, rms_std, spectral_centroid) ==
  [l \in LabelSet |->
     CASE l = "Action & Intensity" ->
            Pts(FGt(tempo, FP(130)), 40)
          + Pts(FGt(rms_mean, Num(12)), 30)
          + Pts(FGt(spectral_centroid, FP(2000)), 30)
       [] l = "Ambiance & Texture" ->
            Pts(FLt(rms_mean, Num(8)), 40)
          + Pts(FLt(rms_std, Num(4)), 30)
          + Pts(FLt(tempo, FP(100)), 30)
       [] l = "Drama & Emotional" ->
            Pts(FGe(tempo, FP(80)) /\ FLe(tempo, FP(120)), 30)
          + Pts(FGt(rms_std, Num(5)), 40)
          + Pts(FLt(spectral_centroid, FP(1800)), 30)
       [] OTHER ->
            Pts(FGe(tempo, FP(100)) /\ FLe(tempo, FP(140)), 40)
          + Pts(FGe(rms_mean, Num(8)) /\ FLe(rms_mean, Num(12)), 30)
          + Pts(FGe(rms_std, Num(3)) /\ FLe(rms_std, Num(6)), 30)]

\* Math.max(...Object.values(scores))
MaxScore(scores) == CHOOSE m \in {scores[l] : l \in LabelSet} : \A l \in LabelSet : scores[l] <= m

\* the winner taken from the end of the key order
PredictWinnerLast(scores) ==
  LET hits == {i \in 1..Len(SceneLabels) : scores[SceneLabels[i]] = MaxScore(scores)}
  IN IF hits = {} THEN "Montage & Narrative"
     ELSE SceneLabels[CHOOSE i \in hits : \A j \in hits : j <= i]

\* Object.keys(scores).find(key => scores[key] === maxScore) || "Montage & Narrative"
PredictWinner(scores) ==
  LET hits == {i \in 1..Len(SceneLabels) : scores[SceneLabels[i]] = MaxScore(scores)}
  IN IF hits = {} THEN "Montage & Narrative"
     ELSE SceneLabels[CHOOSE i \in hits : \A j \in hits : i <= j]

RECURSIVE SumScores(_, _)
SumScores(scores, i) ==
  IF i > Len(SceneLabels) THEN 0 ELSE scores[SceneLabels[i]] + SumScores(scores, i + 1)

\* Object.values(scores).reduce((a, b) => a + b, 0) || 1
PredictTotal(scores) == IF SumScores(scores, 1) = 0 THEN 1 ELSE SumScores(scores, 1)

NoPrediction ==
  [state |-> "none", sceneType |-> "", confidence |-> Rat(0, 1),
   probabilities |-> [l \in LabelSet |-> Rat(0, 1)]]

PredictionError == [NoPrediction EXCEPT !.state = "error"]

Predict(features) ==
  IF Len(features) # 44 THEN PredictionError
  ELSE LET scores == PredictScores(At(features, 2), At(features, 4),
                                   At(features, 5), At(features, 8))
       IN [state |-> "ok",
           sceneType |-> PredictWinner(scores),
           confidence |-> Rat(MaxScore(scores), 100),
           probabilities |-> [l \in LabelSet |-> Rat(scores[l], PredictTotal(scores))]]

\* ------------------------------------------------------------------------
\* Feature-extraction worker: framing and the eight passes
\* ------------------------------------------------------------------------
HOP_SIZE == 512
BUFFER_SIZE == 2048

\* What one frame of a signal holds.  Meyda is an external library: its
\* result for a frame is an input, drawn from these kinds of frame.
\* "overflow" is a frame holding an Infinity sample (a float WAV can), whose
\* root mean square is Infinity and whose spectrum is NaN.
FrameKinds == {"loud", "quiet", "silent", "glitch", "overflow"}

\* The full frames of a signal of n samples: starts 0, 512, ... with
\* start + 2048 <= n.  A signal is [len, kinds], kinds[k + 1] the kind of
\* the frame that starts at 512 * k.
FullFrames(n) == IF n < BUFFER_SIZE THEN 0 ELSE ((n - BUFFER_SIZE) \div HOP_SIZE) + 1

\* (Meyda as any).extract(featureName, frame, ...) for a scalar feature
MeydaScalar(featureName, kind) ==
  CASE kind = "loud" ->
         (CASE featureName = "rms" -> Num(80)
            [] featureName = "zcr" -> FP(300)
            [] featureName = "spectralCentroid" -> FP(2500)
            [] featureName = "spectralRolloff" -> FP(8000)
            [] featureName = "spectralSpread" -> FP(40)
            [] OTHER -> Num(20))
    [] kind = "quiet" ->
         (CASE featureName = "rms" -> Num(10)
            [] featureName = "zcr" -> FP(100)
            [] featureName = "spectralCentroid" -> FP(1500)
            [] featureName = "spectralRolloff" -> FP(4000)
            [] featureName = "spectralSpread" -> FP(20)
            [] OTHER -> Num(60))
    [] kind = "silent" ->
         (CASE featureName \in {"rms", "zcr", "spectralRolloff"} -> Num(0)
            [] OTHER -> NaN)
    [] kind = "overflow" ->
         (CASE featureName = "rms" -> PInf
            [] featureName = "zcr" -> Num(0)
            [] OTHER -> NaN)
    [] OTHER -> Undef

\* (Meyda as any).extract('mfcc' | 'chroma', frame, ...): an array, here a
\* sequence; <<>> stands for a result that is no array
MeydaArray(featureName, kind) ==
  CASE kind = "loud" ->
         IF featureName = "mfcc" THEN [j \in 1..13 |-> Num(200 + j)]
         ELSE [j \in 1..12 |-> Num(50 + j)]
    [] kind = "quiet" ->
         IF featureName = "mfcc" THEN [j \in 1..13 |-> Num(100 + j)]
         ELSE [j \in 1..12 |-> Num(20 + j)]
    [] kind = "silent" ->
         IF featureName = "mfcc" THEN [j \in 1..13 |-> Num(0)]
         ELSE [j \in 1..12 |-> NaN]
    [] kind = "overflow" ->
         IF featureName = "mfcc" THEN [j \in 1..13 |-> NaN]
         ELSE [j \in 1..12 |-> NaN]
    [] OTHER ->
         IF featureName = "mfcc" THEN [j \in 1..13 |-> IF j % 2 = 0 THEN NaN ELSE Num(j)]
         ELSE <<>>

RECURSIVE FrameLoop(_, _)
\* for (let i = 0; i < signal.length - BUFFER_SIZE; i += HOP_SIZE): the
\* values of i, in order
FrameLoop(n, i) ==
  IF i < n - BUFFER_SIZE THEN <<i>> \o FrameLoop(n, i + HOP_SIZE) ELSE <<>>

\* signal.slice(i, i + BUFFER_SIZE): the frame's kind
FrameAt(signal, i) == signal.kinds[(i \div HOP_SIZE) + 1]

Keep(r) == TypeofNumber(r) /\ ~IsNaN(r)

\* extractFramedFeature without the [0] of an empty series
extractFramedFeatureNoFallback(signal, featureName) ==
  LET starts == FrameLoop(signal.len, 0)
      results == [k \in 1..Len(starts) |-> MeydaScalar(featureName, FrameAt(signal, starts[k]))]
      values == SelectSeq(results, Keep)
  IN values

extractFramedFeature(signal, featureName) ==
  LET starts == FrameLoop(signal.len, 0)
      results == [k \in 1..Len(starts) |-> MeydaScalar(featureName, FrameAt(signal, starts[k]))]
      values == SelectSeq(results, Keep)
  IN IF Len(values) > 0 THEN values ELSE <<Num(0)>>

\* the j-th array of a per-coefficient pass: the kept coefficient of every
\* frame whose result passes the array test
CoefSeries(signal, featureName, j, minLen, exact) ==
  LET starts == FrameLoop(signal.len, 0)
      results == [k \in 1..Len(starts) |-> MeydaArray(featureName, FrameAt(signal, starts[k]))]
      ok(r) == IF exact THEN Len(r) = minLen ELSE Len(r) >= minLen
      frames == SelectSeq(results, ok)
      coefs == [k \in 1..Len(frames) |-> frames[k][j]]
      arr == SelectSeq(coefs, LAMBDA c : ~IsNaN(c))
  IN IF Len(arr) > 0 THEN arr ELSE <<Num(0)>>

extractMFCCs(signal) == [j \in 1..13 |-> CoefSeries(signal, "mfcc", j, 13, FALSE)]

extractChroma(signal) == [j \in 1..12 |-> CoefSeries(signal, "chroma", j, 12, TRUE)]

extractSpectralContrast(signal) ==
  LET starts == FrameLoop(signal.len, 0)
      results == [k \in 1..Len(starts) |-> MeydaScalar("spectralFlatness", FrameAt(signal, starts[k]))]
      kept == SelectSeq(results, Keep)
  IN [j \in 1..7 |->
        IF Len(kept) > 0 THEN [k \in 1..Len(kept) |-> FAdd(kept[k], Num(10 * (j - 1)))]
        ELSE <<Num(0)>>]

\* ------------------------------------------------------------------------
\* estimateTempo
\* ------------------------------------------------------------------------
\* a * n / d for a factor n / d
FScale(a, n, d) ==
  CASE a.k = "num" -> Num((a.v * n) \div d)
    [] a.k \in {"pinf", "ninf"} -> a
    [] OTHER -> NaN

\* rmsFrames[i] with a 0-based index; undefined outside the array
RmsAt(rmsFrames, i) == IF i >= 0 /\ i < Len(rmsFrames) THEN rmsFrames[i + 1] ELSE Undef

Last(seq) == seq[Len(seq)]

RECURSIVE OnsetLoopNoNext(_, _, _, _, _)
\* OnsetLoop without the comparison with the next frame
OnsetLoopNoNext(rmsFrames, threshold, minSpacing, i, onsets) ==
  IF i >= Len(rmsFrames) - 1 THEN onsets
  ELSE LET hit == /\ FGt(RmsAt(rmsFrames, i), threshold)
                  /\ FGt(RmsAt(rmsFrames, i), RmsAt(rmsFrames, i - 1))
                  /\ (Len(onsets) = 0 \/ i - Last(onsets) > minSpacing)
       IN OnsetLoopNoNext(rmsFrames, threshold, minSpacing, i + 1,
                          IF hit THEN Append(onsets, i) ELSE onsets)

RECURSIVE OnsetLoop(_, _, _, _, _)
\* the onset loop from frame i on; onsets holds the 0-based frames marked
OnsetLoop(rmsFrames, threshold, minSpacing, i, onsets) ==
  IF i >= Len(rmsFrames) - 1 THEN onsets
  ELSE LET hit == /\ FGt(RmsAt(rmsFrames, i), threshold)
                  /\ FGt(RmsAt(rmsFrames, i), RmsAt(rmsFrames, i - 1))
                  /\ FGt(RmsAt(rmsFrames, i), RmsAt(rmsFrames, i + 1))
                  /\ (Len(onsets) = 0 \/ i - Last(onsets) > minSpacing)
       IN OnsetLoop(rmsFrames, threshold, minSpacing, i + 1,
                    IF hit THEN Append(onsets, i) ELSE onsets)

RECURSIVE SortInsert(_, _)
SortInsert(sorted, x) ==
  IF sorted = <<>> THEN <<x>>
  ELSE IF x < sorted[1] THEN <<x>> \o sorted
  ELSE <<sorted[1]>> \o SortInsert(Tail(sorted), x)

RECURSIVE SortAsc(_)
\* intervals.sort((a, b) => a - b)
SortAsc(seq) == IF seq = <<>> THEN <<>> ELSE SortInsert(SortAsc(Tail(seq)), seq[1])

RECURSIVE HalveAbove200(_, _)
\* Halve with the octave folded at 200 BPM
HalveAbove200(p, q) == IF p > 200 * q THEN HalveAbove200(p, 2 * q) ELSE <<p, q>>

RECURSIVE Halve(_, _)
\* while (tempo > 180) tempo /= 2, tempo the fraction p / q
Halve(p, q) == IF p > 180 * q THEN Halve(p, 2 * q) ELSE <<p, q>>

\* Double with an if in place of the while
DoubleOnce(p, q) == IF p > 0 /\ p < 80 * q THEN <<2 * p, q>> ELSE <<p, q>>

RECURSIVE Double(_, _)
\* while (tempo < 80) tempo *= 2; it ends only for tempo > 0
Double(p, q) == IF p > 0 /\ p < 80 * q THEN Double(2 * p, q) ELSE <<p, q>>

Min2(a, b) == IF a < b THEN a ELSE b
Max2(a, b) == IF a > b THEN a ELSE b

\* sampleRate is a whole number of Hz > 0; the result a whole number of BPM
estimateTempo(rmsFrames, sampleRate) ==
  LET threshold == FAdd(mean(rmsFrames), FScale(std(rmsFrames), 3, 10))
      \* Math.floor(0.2 * (sampleRate / HOP_SIZE))
      minSpacing == (2 * sampleRate) \div (10 * HOP_SIZE)
      onsets == OnsetLoop(rmsFrames, threshold, minSpacing, minSpacing, <<>>)
  IN IF Len(onsets) < 2 THEN 120
     ELSE LET intervals == SortAsc([i \in 1..(Len(onsets) - 1) |-> onsets[i + 1] - onsets[i]])
              medianInterval == intervals[(Len(intervals) \div 2) + 1]
              \* (60 * frameRate) / medianInterval
              h == Halve(60 * sampleRate, HOP_SIZE * medianInterval)
              t == Double(h[1], h[2])
              \* Math.round(tempo)
              rounded == (2 * t[1] + t[2]) \div (2 * t[2])
          IN Max2(60, Min2(200, rounded))

\* ------------------------------------------------------------------------
\* The worker's message handler
\* ------------------------------------------------------------------------
\* ProgressSteps with pass 6 announced at the percent of pass 5
ProgressStepsRepeated ==
  << [percent |-> 0, stage |-> "Analyzing energy..."],
     [percent |-> 14, stage |-> "Analyzing texture..."],
     [percent |-> 28, stage |-> "Analyzing brightness..."],
     [percent |-> 42, stage |-> "Analyzing frequency shape..."],
     [percent |-> 56, stage |-> "Analyzing spectral spread..."],
     [percent |-> 56, stage |-> "Analyzing timbre..."],
     [percent |-> 78, stage |-> "Analyzing harmonic contrast..."],
     [percent |-> 88, stage |-> "Analyzing pitch content..."],
     [percent |-> 98, stage |-> "Assembling features..."] >>

\* the postProgress calls of self.onmessage, in program order
ProgressSteps ==
  << [percent |-> 0, stage |-> "Analyzing energy..."],
     [percent |-> 14, stage |-> "Analyzing texture..."],
     [percent |-> 28, stage |-> "Analyzing brightness..."],
     [percent |-> 42, stage |-> "Analyzing frequency shape..."],
     [percent |-> 56, stage |-> "Analyzing spectral spread..."],
     [percent |-> 64, stage |-> "Analyzing timbre..."],
     [percent |-> 78, stage |-> "Analyzing harmonic contrast..."],
     [percent |-> 88, stage |-> "Analyzing pitch content..."],
     [percent |-> 98, stage |-> "Assembling features..."] >>

\* the feature passes, each begun right after its postProgress
NumPasses == 8

ProgressMsg(i) ==
  [type |-> "PROGRESS", percent |-> ProgressSteps[i].percent, stage |-> ProgressSteps[i].stage]

\* Math.round((tempo / 60) * duration), duration in hundredths of a second
BeatCount(tempo, duration) ==
  CASE duration.k = "num" -> FP((2 * tempo * duration.v + 6000) \div 12000)
    [] duration.k \in {"pinf", "ninf"} -> duration
    [] OTHER -> NaN

\* msg is the EXTRACT message [signal, sampleRate, duration]
TimeSeriesOf(msg) ==
  LET rms == extractFramedFeature(msg.signal, "rms")
  IN [rms |-> rms,
      zcr |-> extractFramedFeature(msg.signal, "zcr"),
      spectralCentroid |-> extractFramedFeature(msg.signal, "spectralCentroid"),
      spectralRolloff |-> extractFramedFeature(msg.signal, "spectralRolloff"),
      tempo |-> estimateTempo(rms, msg.sampleRate),
      sampleRate |-> msg.sampleRate]

\* 1. Basic audio properties (4)
BasicFeatures(msg, ts) ==
  << msg.duration, FP(msg.sampleRate), FP(ts.tempo), BeatCount(ts.tempo, msg.duration) >>

\* 2. Energy (4)
EnergyFeatures(msg, ts) ==
  << mean(ts.rms), std(ts.rms), FMaxOf(ts.rms, NInf), mean(ts.zcr) >>

\* 3. Spectral (4)
SpectralFeatures(msg, ts) ==
  << mean(ts.spectralCentroid), std(ts.spectralCentroid),
     mean(ts.spectralRolloff), mean(extractFramedFeature(msg.signal, "spectralSpread")) >>

\* 4. MFCCs (13)
MfccFeatures(msg) == [i \in 1..13 |-> mean(extractMFCCs(msg.signal)[i])]

\* 5. Spectral contrast (7), with the loop one band short
ContrastFeaturesShort(msg) == [i \in 1..6 |-> mean(extractSpectralContrast(msg.signal)[i])]

\* 5. Spectral contrast (7)
ContrastFeatures(msg) == [i \in 1..7 |-> mean(extractSpectralContrast(msg.signal)[i])]

\* 6. Chroma (12)
ChromaFeatures(msg) == [i \in 1..12 |-> mean(extractChroma(msg.signal)[i])]

\* FeaturesOf with the spectral group pushed before the energy group
FeaturesOfSwapped(msg) ==
  LET ts == TimeSeriesOf(msg)
  IN BasicFeatures(msg, ts) \o SpectralFeatures(msg, ts) \o EnergyFeatures(msg, ts)
     \o MfccFeatures(msg) \o ContrastFeatures(msg) \o ChromaFeatures(msg)

\* the flat vector, in the order of the pushes
FeaturesOf(msg) ==
  LET ts == TimeSeriesOf(msg)
  IN BasicFeatures(msg, ts) \o EnergyFeatures(msg, ts) \o SpectralFeatures(msg, ts)
     \o MfccFeatures(msg) \o ContrastFeatures(msg) \o ChromaFeatures(msg)

ResultMsg(msg) == [type |-> "RESULT", features |-> FeaturesOf(msg), timeSeries |-> TimeSeriesOf(msg)]

ErrorMsg == [type |-> "ERROR", message |-> "meyda"]

\* WorkerPosts with a catch that posts nothing
WorkerPostsNoTerminal(msg, throwAt) ==
  IF throwAt = 0 \/ FrameLoop(msg.signal.len, 0) = <<>>
  THEN [i \in 1..Len(ProgressSteps) |-> ProgressMsg(i)] \o << ResultMsg(msg) >>
  ELSE [i \in 1..throwAt |-> ProgressMsg(i)]

\* Everything self.onmessage posts for one EXTRACT message, in order.
\* throwAt = 0: no pass throws; throwAt = p in 1..8: Meyda throws in pass p,
\* which takes a frame to call it on.
WorkerPosts(msg, throwAt) ==
  IF throwAt = 0 \/ FrameLoop(msg.signal.len, 0) = <<>>
  THEN [i \in 1..Len(ProgressSteps) |-> ProgressMsg(i)] \o << ResultMsg(msg) >>
  ELSE [i \in 1..throwAt |-> ProgressMsg(i)] \o << ErrorMsg >>

\* ------------------------------------------------------------------------
\* State
\* ------------------------------------------------------------------------
VARIABLES
  fnMode,      \* "extract": a worker run on fnMsg; "classify": predict on fnInput
  fnMsg,       \* the EXTRACT message handed to the worker
  fnThrowAt,   \* the pass in which Meyda throws (0: none)
  fnPosts,     \* what the worker posted
  fnInput,     \* the vector handed to predict
  fnOutput,    \* what predict returned
  fnArgs,      \* "normalize": [features, scaler]; "tempo": [rmsFrames, sampleRate]
  fnRet        \* what normalizeFeatures or estimateTempo returned

fnVars == <<fnMode, fnMsg, fnThrowAt, fnPosts, fnInput, fnOutput, fnArgs, fnRet>>

VARIABLES
  \* mlModelService
  svc,            \* [model, scaler, featureNames, sceneTypes, isLoaded]
  initPc,         \* initializeModel call -> where it stands
  \* useScenePrediction state
  isLoading, isPredicting, error, result, isModelLoaded, progressState,
  pendingResets,  \* setTimeout(() => setProgressState(0), 300) not yet run
  \* predictSceneType calls
  callPc,         \* call -> where it stands
  callFile,       \* call -> the file it was given
  callStages,     \* call -> the stages it has entered, in order
  callOutcome,    \* call -> how it ended
  callPrediction, \* call -> what predict returned to it
  audioCtx,       \* call -> "none" | "open" | "closed"
  \* extractBrowserCompatibleFeatures and its worker, one per call
  wState,         \* call -> "none" | "spawned" | "ran" | "terminated"
  wMsg,           \* call -> the EXTRACT message transferred to the worker
  wPosted,        \* call -> everything the worker posted, in order
  delivered,      \* call -> how many of them worker.onmessage has handled
  promise,        \* call -> "none" | "pending" | "resolved" | "rejected"
  settleCalls,    \* call -> how often resolve or reject was called
  extracted,      \* call -> what the promise resolved with
  progressLog     \* call -> the percents onProgress was invoked with

svcVars == <<svc, initPc>>
hookVars == <<isLoading, isPredicting, error, result, isModelLoaded, progressState, pendingResets>>
callVars == <<callPc, callFile, callStages, callOutcome, callPrediction, audioCtx>>
workerVars == <<wState, wMsg, wPosted, delivered, promise, settleCalls, extracted, progressLog>>

VARIABLES
  \* App
  selectedFile,    \* the file of the last upload or drop, NoFile after a track selection
  trackHistory,    \* the tracks of the history, newest first
  selectedTrackId, \* the track of the history on display, 0 for none
  lastToastResult, \* lastToastResultRef.current
  \* audioStorageService
  store,           \* the records of the object store: [id, storedAt]
  storePc          \* track id -> where its storeTrack call stands

appVars == <<selectedFile, trackHistory, selectedTrackId, lastToastResult, store, storePc>>

vars == <<fnVars, svcVars, hookVars, callVars, workerVars, appVars>>

\* ------------------------------------------------------------------------
\* Inputs
\* ------------------------------------------------------------------------
SampleCounts ==
  {0, 1000, 2047} \cup {BUFFER_SIZE + HOP_SIZE * k + d : k \in 0..(MaxFrames - 1), d \in {0, 1}}

SampleRates == {8000, 44100}

Signals == UNION {{[len |-> n, kinds |-> ks] : ks \in [1..FullFrames(n) -> FrameKinds]} : n \in SampleCounts}

\* AudioBuffer.duration = length / sampleRate, in hundredths of a second
DurationOf(n, sampleRate) == Num((100 * n) \div sampleRate)

ExtractMessages ==
  {[signal |-> sg, sampleRate |-> sr, duration |-> DurationOf(sg.len, sr)] :
     sg \in Signals, sr \in SampleRates}

NoMessage == [signal |-> [len |-> 0, kinds |-> <<>>], sampleRate |-> 44100, duration |-> Num(0)]

TempoInputs == {NaN, PInf, FP(60), FP(90), FP(100), FP(120), FP(130), FP(135), FP(150)}
RmsMeanInputs == {NaN, Num(5), Num(8), Num(10), Num(12), Num(20)}
RmsStdInputs == {NaN, Num(2), Num(3), Num(4), Num(5), Num(6), Num(10)}
CentroidInputs == {NaN, FP(1000), FP(1800), FP(1900), FP(2000), FP(3000)}

\* a vector of n elements with the four features the classifier reads set
Vector(n, tempo, rms_mean, rms_std, centroid) ==
  [i \in 1..n |->
     CASE i = 3 -> tempo
       [] i = 5 -> rms_mean
       [] i = 6 -> rms_std
       [] i = 9 -> centroid
       [] OTHER -> Num(0)]

ClassifierInputs ==
  {Vector(44, t, m, s, c) :
     t \in TempoInputs, m \in RmsMeanInputs, s \in RmsStdInputs, c \in CentroidInputs}
  \cup {Vector(n, FP(120), Num(10), Num(4), FP(1900)) : n \in {0, 1, 43, 45}}

\* ------------------------------------------------------------------------
\* The program: model loading, the hook, the extraction wrapper
\* ------------------------------------------------------------------------
Calls == 1..MaxCalls
Inits == 1..MaxInits

\* The decoded audio of the files a user can hand in: [length, sampleRate, kinds]
Files == {"a", "e"}

\* the files of the calls-only specification: a second track, so that two
\* calls in flight hold different signals
CallFiles == Files \cup {"b"}

AudioBufferOf(file) ==
  CASE file = "a" -> [length |-> 3073, sampleRate |-> 44100, kinds |-> <<"loud", "quiet", "loud">>]
    [] file = "b" -> [length |-> 2561, sampleRate |-> 8000, kinds |-> <<"quiet", "silent">>]
    [] OTHER -> [length |-> 0, sampleRate |-> 44100, kinds |-> <<>>]

Null == [isNull |-> TRUE]
NoFile == "none"

\* errorMessage.includes(keyword), for the messages the program throws
ReadError == "Failed to read audio file. The file may be corrupted."
DecodeError == "Failed to decode audio. Please ensure the file is a valid audio format."
EmptyError == "Audio file appears to be empty or corrupted."
ExtractError == "Failed to analyze audio features. The audio format may not be supported."
ClassifyError == "AI classification failed. Please try again."
LoadError == "Model loading failed: TypeError: Failed to fetch"
NotLoadedError == "AI model not loaded. Please wait or refresh the page."

Includes(message, keyword) ==
  CASE message = DecodeError -> keyword \in {"decode", "format"}
    [] message = ExtractError -> keyword \in {"feature", "format"}
    [] message = LoadError -> keyword \in {"Failed to fetch", "fetch", "load"}
    [] OTHER -> FALSE

getErrorMessage(message) ==
  CASE Includes(message, "NetworkError") \/ Includes(message, "Failed to fetch") ->
         "Network error. Please check your internet connection and try again."
    [] Includes(message, "model") /\ Includes(message, "load") ->
         "Failed to load the AI model. Please refresh the page and try again."
    [] Includes(message, "decode") \/ Includes(message, "AudioContext") ->
         "Failed to decode audio file. The file may be corrupted or in an unsupported format."
    [] Includes(message, "feature") \/ Includes(message, "extract") ->
         "Failed to analyze audio features. Please try a different file."
    [] Includes(message, "memory") \/ Includes(message, "heap") ->
         "Audio file is too large for your device. Try a shorter or lower quality file."
    [] OTHER -> message

\* the errorType chain of predictSceneType's catch
ErrorTypeOf(message) ==
  CASE Includes(message, "decode") \/ Includes(message, "format") -> "audio"
    [] Includes(message, "network") \/ Includes(message, "fetch") -> "network"
    [] Includes(message, "feature") \/ Includes(message, "extract") -> "audio"
    [] OTHER -> "unknown"

ErrorState(message, type, canRetry) ==
  [isNull |-> FALSE, message |-> message, type |-> type, canRetry |-> canRetry]

\* the error initializeModel's catch sets
InitError == ErrorState(getErrorMessage(LoadError), "model", TRUE)

\* CatchError with the exception swallowed
CatchErrorSwallowed(message) == Null

\* the error predictSceneType's catch sets
CatchError(message) == ErrorState(getErrorMessage(message), ErrorTypeOf(message), TRUE)

\* 40 + Math.round(workerPercent * 0.4)
\* MapProgress without the factor 0.4
MapProgressUnscaled(workerPercent) == 40 + workerPercent

\* 40 + Math.round(workerPercent * 0.4)
MapProgress(workerPercent) == 40 + ((workerPercent * 4 + 5) \div 10)

Progress(p, stage) == [progress |-> p, stage |-> stage]

NoService ==
  [model |-> FALSE, scaler |-> FALSE, featureNames |-> FALSE, sceneTypes |-> "none",
   isLoaded |-> FALSE]

\* the service after a loadModel call that fetched everything
LoadedService ==
  [model |-> TRUE, scaler |-> TRUE, featureNames |-> TRUE, sceneTypes |-> "set",
   isLoaded |-> TRUE]

MAX_STORED_FILES == 10

TrackIds == 1..(MAX_STORED_FILES + MaxCalls)

\* where a storeTrack call stands; toDelete is what enforceStorageLimit
\* computed from the count it read, audioFile the file the call was given
StoreAt(at, toDelete, audioFile) == [at |-> at, toDelete |-> toDelete, audioFile |-> audioFile]

\* the App before any track: nothing selected, nothing stored
AppIdle ==
  /\ selectedFile = NoFile
  /\ selectedTrackId = 0
  /\ trackHistory = <<>>
  /\ lastToastResult = Null
  /\ store = {}
  /\ storePc = [id \in TrackIds |-> StoreAt("none", 0, NoFile)]

\* no predictSceneType call made yet
CallsIdle ==
  /\ isLoading = FALSE
  /\ isPredicting = FALSE
  /\ error = Null
  /\ result = Null
  /\ progressState = Progress(0, "")
  /\ pendingResets = 0
  /\ callPc = [c \in Calls |-> "idle"]
  /\ callFile = [c \in Calls |-> NoFile]
  /\ callStages = [c \in Calls |-> <<>>]
  /\ callOutcome = [c \in Calls |-> "none"]
  /\ callPrediction = [c \in Calls |-> NoPrediction]
  /\ audioCtx = [c \in Calls |-> "none"]
  /\ wState = [c \in Calls |-> "none"]
  /\ wMsg = [c \in Calls |-> Null]
  /\ wPosted = [c \in Calls |-> <<>>]
  /\ delivered = [c \in Calls |-> 0]
  /\ promise = [c \in Calls |-> "none"]
  /\ settleCalls = [c \in Calls |-> 0]
  /\ extracted = [c \in Calls |-> Null]
  /\ progressLog = [c \in Calls |-> <<>>]

ProgramIdle ==
  /\ svc = NoService
  /\ initPc = [i \in Inits |-> "idle"]
  /\ isModelLoaded = FALSE
  /\ CallsIdle

\* ---- MLModelService.normalizeFeatures ----------------------------------

\* arr[idx] for the 1-based position idx; undefined past the end
ArrAt(arr, idx) == IF idx <= Len(arr) THEN arr[idx] ELSE Undef

\* NormalizeElement with the mean added instead of subtracted
NormalizeElementPlus(value, m, scale) == FDiv(FAdd(value, m), scale)

\* (value - mean) / scale
NormalizeElement(value, m, scale) == FDiv(FSub(value, m), scale)

NoReturn == [state |-> "none"]
NoArgs == [none |-> TRUE]

Thrown(message) == [state |-> "error", message |-> message]

\* scaler: this.scaler, Null or [mean, scale]
normalizeFeatures(features, scaler) ==
  IF scaler.isNull THEN Thrown("Scaler not loaded")
  ELSE IF Len(features) # Len(scaler.mean) THEN Thrown("Feature length mismatch")
  ELSE [state |-> "ok",
        value |-> [idx \in 1..Len(features) |->
                     NormalizeElement(features[idx], ArrAt(scaler.mean, idx),
                                      ArrAt(scaler.scale, idx))]]

\* feature vectors handed to normalizeFeatures
NormalizeInputs ==
  {Vector(n, t, Num(10), Num(4), FP(1900)) : n \in {0, 43, 44, 45}, t \in {FP(120), NaN, PInf}}

\* scaler_params.json: arrays of JSON numbers, or no scaler loaded
ScalerMeans ==
  {Vector(n, t, Num(10), Num(4), FP(1900)) : n \in {43, 44, 45}, t \in {FP(120), FP(100)}}

ScalerScales == {[i \in 1..n |-> FP(x)] : n \in {43, 44, 45}, x \in {0, 1, 2}}

Scalers ==
  {Null} \cup {[isNull |-> FALSE, mean |-> m, scale |-> sc] : m \in ScalerMeans, sc \in ScalerScales}

\* ---- inputs of estimateTempo ------------------------------------------

\* n frames, the 0-based frames of peaks loud and the others quiet
PeakSeries(n, peaks) == [i \in 1..n |-> IF (i - 1) \in peaks THEN Num(80) ELSE Num(10)]

\* rms series: empty, one frame, constant, rising, single peaks, peaks too
\* close or unevenly spaced, and peaks every K frames
TempoSeries ==
  {<<>>, <<Num(80)>>}
    \cup {[i \in 1..n |-> Num(v)] : n \in {5, 20}, v \in {0, 10}}
    \cup {[i \in 1..n |-> Num(10 * i)] : n \in {16, 20}}
    \cup {PeakSeries(n, ps) : n \in {12, 20},
                              ps \in {{1}, {6}, {1, 6}, {5, 7}, {9, 10}, {5, 9, 16}, {8, 11, 18}}}
    \cup {PeakSeries(off + K * (c - 1) + 2, {off + K * m : m \in 0..(c - 1)}) :
            K \in {4, 5, 6}, c \in 2..3, off \in {3, 5}}
    \cup {PeakSeries(off + K + 2, {off, off + K}) : K \in {8, 9, 10, 12}, off \in {3, 8}}

\* sample rates of the tempo inputs: 0.2 s is 3 frames at 8000 Hz, 8
\* frames at 22050 Hz and less than one frame at 1 Hz and 2048 Hz
TempoRates == {1, 2048, 8000, 22050}

FnIdle ==
  /\ fnMode = "off"
  /\ fnArgs = NoArgs
  /\ fnRet = NoReturn
  /\ fnMsg = NoMessage
  /\ fnThrowAt = 0
  /\ fnPosts = <<>>
  /\ fnInput = <<>>
  /\ fnOutput = NoPrediction

Init == FnIdle /\ ProgramIdle /\ AppIdle

\* ------------------------------------------------------------------------
\* The pure functions, applied to drawn inputs
\* ------------------------------------------------------------------------
FnInit ==
  /\ ProgramIdle
  /\ AppIdle
  /\ fnPosts = <<>>
  /\ fnOutput = NoPrediction
  /\ fnRet = NoReturn
  /\ \/ /\ fnMode = "extract"
        /\ fnMsg \in ExtractMessages
        /\ fnThrowAt \in 0..NumPasses
        /\ fnInput = <<>>
        /\ fnArgs = NoArgs
     \/ /\ fnMode = "classify"
        /\ fnMsg = NoMessage
        /\ fnThrowAt = 0
        /\ fnInput \in ClassifierInputs
        /\ fnArgs = NoArgs
     \/ /\ fnMode = "normalize"
        /\ fnMsg = NoMessage
        /\ fnThrowAt = 0
        /\ fnInput = <<>>
        /\ fnArgs \in {[features |-> f, scaler |-> sc] : f \in NormalizeInputs, sc \in Scalers}
     \/ /\ fnMode = "tempo"
        /\ fnMsg = NoMessage
        /\ fnThrowAt = 0
        /\ fnInput = <<>>
        /\ fnArgs \in {[rmsFrames |-> f, sampleRate |-> sr] : f \in TempoSeries, sr \in TempoRates}
     \/ /\ fnMode = "progress"
        /\ fnMsg = NoMessage
        /\ fnThrowAt = 0
        /\ fnInput = <<>>
        /\ fnArgs \in {[percent |-> a, later |-> b] : a \in 0..100, b \in {0, 50, 99, 100}}

\* self.onmessage on the EXTRACT message
FnRunWorker ==
  /\ fnMode = "extract"
  /\ fnPosts = <<>>
  /\ fnPosts' = WorkerPosts(fnMsg, fnThrowAt)
  /\ UNCHANGED <<fnMode, fnMsg, fnThrowAt, fnInput, fnOutput, fnArgs, fnRet>>
  /\ UNCHANGED <<svcVars, hookVars, callVars, workerVars, appVars>>

\* predict on the RESULT's vector, or on it with an element dropped or added
FnPredictResult ==
  /\ fnMode = "extract"
  /\ fnPosts # <<>>
  /\ Last(fnPosts).type = "RESULT"
  /\ fnOutput.state = "none"
  /\ \E v \in {Last(fnPosts).features, Tail(Last(fnPosts).features),
               Append(Last(fnPosts).features, Num(0))} :
       /\ fnInput' = v
       /\ fnOutput' = Predict(v)
  /\ UNCHANGED <<fnMode, fnMsg, fnThrowAt, fnPosts, fnArgs, fnRet>>
  /\ UNCHANGED <<svcVars, hookVars, callVars, workerVars, appVars>>

\* predict on a drawn vector
FnPredict ==
  /\ fnMode = "classify"
  /\ fnOutput.state = "none"
  /\ fnOutput' = Predict(fnInput)
  /\ UNCHANGED <<fnMode, fnMsg, fnThrowAt, fnPosts, fnInput, fnArgs, fnRet>>
  /\ UNCHANGED <<svcVars, hookVars, callVars, workerVars, appVars>>

\* normalizeFeatures on a drawn vector and scaler
FnNormalize ==
  /\ fnMode = "normalize"
  /\ fnRet.state = "none"
  /\ fnRet' = normalizeFeatures(fnArgs.features, fnArgs.scaler)
  /\ UNCHANGED <<fnMode, fnMsg, fnThrowAt, fnPosts, fnInput, fnOutput, fnArgs>>
  /\ UNCHANGED <<svcVars, hookVars, callVars, workerVars, appVars>>

\* estimateTempo on a drawn rms series and sample rate
FnTempo ==
  /\ fnMode = "tempo"
  /\ fnRet.state = "none"
  /\ fnRet' = [state |-> "ok", value |-> estimateTempo(fnArgs.rmsFrames, fnArgs.sampleRate)]
  /\ UNCHANGED <<fnMode, fnMsg, fnThrowAt, fnPosts, fnInput, fnOutput, fnArgs>>
  /\ UNCHANGED <<svcVars, hookVars, callVars, workerVars, appVars>>

\* the onProgress callback of predictSceneType on two worker percents
FnMapProgress ==
  /\ fnMode = "progress"
  /\ fnRet.state = "none"
  /\ fnRet' = [state |-> "ok", value |-> MapProgress(fnArgs.percent),
               laterValue |-> MapProgress(fnArgs.later)]
  /\ UNCHANGED <<fnMode, fnMsg, fnThrowAt, fnPosts, fnInput, fnOutput, fnArgs>>
  /\ UNCHANGED <<svcVars, hookVars, callVars, workerVars, appVars>>

FnNext == FnRunWorker \/ FnPredictResult \/ FnPredict \/ FnNormalize \/ FnTempo \/ FnMapProgress

SpecFunctions == FnInit /\ [][FnNext]_vars

\* ---- MLModelService.loadModel, called by initializeModel ----------------

\* initializeModel up to loadModel's first await
InitializeModel(i) ==
  /\ initPc[i] = "idle"
  /\ \A j \in Inits : j < i => initPc[j] # "idle"
  /\ isLoading' = TRUE
  /\ error' = Null
  /\ initPc' = [initPc EXCEPT ![i] = IF svc.isLoaded THEN "returned" ELSE "model"]
  /\ UNCHANGED <<svc, isPredicting, result, isModelLoaded, progressState, pendingResets>>
  /\ UNCHANGED <<fnVars, appVars, callVars, workerVars>>

\* this.model = await tf.loadLayersModel(...)
LoadModelFile(i) ==
  /\ initPc[i] = "model"
  /\ \/ /\ svc' = [svc EXCEPT !.model = TRUE]
        /\ initPc' = [initPc EXCEPT ![i] = "scaler"]
     \/ /\ svc' = svc
        /\ initPc' = [initPc EXCEPT ![i] = "threw"]
  /\ UNCHANGED <<fnVars, appVars, hookVars, callVars, workerVars>>

\* this.scaler = await (await fetch(scaler_params.json)).json()
LoadScaler(i) ==
  /\ initPc[i] = "scaler"
  /\ \/ /\ svc' = [svc EXCEPT !.scaler = TRUE]
        /\ initPc' = [initPc EXCEPT ![i] = "featureNames"]
     \/ /\ svc' = svc
        /\ initPc' = [initPc EXCEPT ![i] = "threw"]
  /\ UNCHANGED <<fnVars, appVars, hookVars, callVars, workerVars>>

\* this.featureNames = await (await fetch(feature_names.json)).json()
LoadFeatureNames(i) ==
  /\ initPc[i] = "featureNames"
  /\ \/ /\ svc' = [svc EXCEPT !.featureNames = TRUE]
        /\ initPc' = [initPc EXCEPT ![i] = "sceneTypes"]
     \/ /\ svc' = svc
        /\ initPc' = [initPc EXCEPT ![i] = "threw"]
  /\ UNCHANGED <<fnVars, appVars, hookVars, callVars, workerVars>>

\* this.sceneTypes = (await (await fetch(scene_types.json)).json()).classes;
\* this.isLoaded = true.  A JSON object without "classes" leaves undefined.
LoadSceneTypes(i) ==
  /\ initPc[i] = "sceneTypes"
  /\ \/ /\ \E classes \in {"set", "undefined"} :
             svc' = [svc EXCEPT !.sceneTypes = classes, !.isLoaded = TRUE]
        /\ initPc' = [initPc EXCEPT ![i] = "returned"]
     \/ /\ svc' = svc
        /\ initPc' = [initPc EXCEPT ![i] = "threw"]
  /\ UNCHANGED <<fnVars, appVars, hookVars, callVars, workerVars>>

\* initializeModel after the await: try's rest, catch, finally
InitializeModelDone(i) ==
  /\ initPc[i] \in {"returned", "threw"}
  /\ IF initPc[i] = "returned"
     THEN isModelLoaded' = TRUE /\ error' = error
     ELSE isModelLoaded' = isModelLoaded /\ error' = InitError
  /\ isLoading' = FALSE
  /\ initPc' = [initPc EXCEPT ![i] = "done"]
  /\ UNCHANGED <<svc, isPredicting, result, progressState, pendingResets>>
  /\ UNCHANGED <<fnVars, appVars, callVars, workerVars>>

\* ---- predictSceneType ---------------------------------------------------

\* catch and finally of predictSceneType for a thrown message
Fail(c, message) ==
  /\ error' = CatchError(message)
  /\ isPredicting' = FALSE
  /\ pendingResets' = pendingResets + 1
  /\ callPc' = [callPc EXCEPT ![c] = "done"]
  /\ callOutcome' = [callOutcome EXCEPT ![c] = "error"]
  /\ callStages' = [callStages EXCEPT ![c] = Append(@, "Error")]
  /\ UNCHANGED <<isLoading, result, isModelLoaded, progressState>>

\* predictSceneType(file) up to its first await (handleFileChange,
\* handleFileDrop and retryPrediction all end in it)
StartCall(c, file) ==
  /\ callPc[c] = "idle"
  /\ \A j \in Calls : j < c => callPc[j] # "idle"
  /\ callFile' = [callFile EXCEPT ![c] = file]
  /\ IF ~isModelLoaded
     THEN /\ error' = ErrorState(NotLoadedError, "model", FALSE)
          /\ callPc' = [callPc EXCEPT ![c] = "done"]
          /\ callOutcome' = [callOutcome EXCEPT ![c] = "guard"]
          /\ UNCHANGED <<isPredicting, progressState, callStages>>
     ELSE /\ error' = Null
          /\ isPredicting' = TRUE
          /\ progressState' = Progress(10, "Loading audio...")
          /\ callPc' = [callPc EXCEPT ![c] = "reading"]
          /\ callStages' = [callStages EXCEPT ![c] = <<"Loading">>]
          /\ UNCHANGED callOutcome
  /\ UNCHANGED <<isLoading, result, isModelLoaded, pendingResets, callPrediction, audioCtx>>
  /\ UNCHANGED <<fnVars, appVars, svcVars, workerVars>>

\* await delay(100); await audioFile.arrayBuffer()
ReadDone(c) ==
  /\ callPc[c] = "reading"
  /\ \/ /\ progressState' = Progress(20, "Decoding audio...")
        /\ callPc' = [callPc EXCEPT ![c] = "delay2"]
        /\ callStages' = [callStages EXCEPT ![c] = Append(@, "Decoding")]
        /\ UNCHANGED <<isLoading, isPredicting, error, result, isModelLoaded, pendingResets,
                       callOutcome>>
     \/ Fail(c, ReadError)
  /\ UNCHANGED <<callFile, callPrediction, audioCtx>>
  /\ UNCHANGED <<fnVars, appVars, svcVars, workerVars>>

\* await delay(150); audioContext = new AudioContext(); decodeAudioData begins
DecodeStart(c) ==
  /\ callPc[c] = "delay2"
  /\ audioCtx' = [audioCtx EXCEPT ![c] = "open"]
  /\ callPc' = [callPc EXCEPT ![c] = "decoding"]
  /\ UNCHANGED <<callFile, callStages, callOutcome, callPrediction>>
  /\ UNCHANGED <<fnVars, appVars, svcVars, hookVars, workerVars>>

\* audioBuffer = await audioContext.decodeAudioData(arrayBuffer)
DecodeDone(c) ==
  /\ callPc[c] = "decoding"
  /\ \/ /\ callPc' = [callPc EXCEPT ![c] = "closing"]
        /\ UNCHANGED <<hookVars, callStages, callOutcome>>
     \/ Fail(c, DecodeError)
  /\ UNCHANGED <<callFile, callPrediction, audioCtx>>
  /\ UNCHANGED <<fnVars, appVars, svcVars, workerVars>>

\* IsEmptyAudio with the check left out
IsEmptyAudioNever(audioDuration) == FALSE

\* audioDuration === 0 || !isFinite(audioDuration)
IsEmptyAudio(audioDuration) == audioDuration = Num(0) \/ ~IsFinite(audioDuration)

\* extractBrowserCompatibleFeatures' executor: the EXTRACT message posted
ExtractMessageOf(audioBuffer) ==
  [signal |-> [len |-> audioBuffer.length, kinds |-> audioBuffer.kinds],
   sampleRate |-> audioBuffer.sampleRate,
   duration |-> DurationOf(audioBuffer.length, audioBuffer.sampleRate)]

\* worker.postMessage with the signal transferred, but to every worker
\* that has not run yet
WorkerMessagesShared(c, msg) ==
  [d \in Calls |-> IF d = c \/ wState[d] = "spawned" THEN msg ELSE wMsg[d]]

\* worker.postMessage({ type: 'EXTRACT', signal, ... }, [signal.buffer]) on
\* the worker this call has just made: the message each worker owns
WorkerMessages(c, msg) == [wMsg EXCEPT ![c] = msg]

\* the contexts after a close() that releases nothing
ContextsAfterCloseLeftOpen(c) == audioCtx

\* the contexts after await audioContext.close() of call c has resolved
ContextsAfterClose(c) == [audioCtx EXCEPT ![c] = "closed"]

\* await audioContext.close(), inside the decoding try; the duration check;
\* the worker spawned and the signal transferred
CloseDone(c) ==
  /\ callPc[c] = "closing"
  /\ \/ /\ audioCtx' = ContextsAfterClose(c)
        /\ LET audioBuffer == AudioBufferOf(callFile[c])
               audioDuration == DurationOf(audioBuffer.length, audioBuffer.sampleRate)
           IN IF IsEmptyAudio(audioDuration)
              THEN /\ Fail(c, EmptyError)
                   /\ UNCHANGED workerVars
              ELSE /\ progressState' = Progress(40, "Analyzing audio...")
                   /\ callPc' = [callPc EXCEPT ![c] = "extracting"]
                   /\ callStages' = [callStages EXCEPT ![c] = Append(@, "Extracting")]
                   /\ wState' = [wState EXCEPT ![c] = "spawned"]
                   /\ wMsg' = WorkerMessages(c, ExtractMessageOf(audioBuffer))
                   /\ promise' = [promise EXCEPT ![c] = "pending"]
                   /\ UNCHANGED <<isLoading, isPredicting, error, result, isModelLoaded,
                                  pendingResets, callOutcome>>
                   /\ UNCHANGED <<wPosted, delivered, settleCalls, extracted, progressLog>>
     \/ /\ Fail(c, DecodeError)
        /\ UNCHANGED <<audioCtx, workerVars>>
  /\ UNCHANGED <<callFile, callPrediction>>
  /\ UNCHANGED <<fnVars, appVars, svcVars>>

\* the passes in which Meyda is made to throw in a call (0: in none)
ThrowPasses == {0, 1, NumPasses}

\* self.onmessage in the worker: the whole handler, Meyda throwing in pass
\* throwAt or in none
WorkerOnMessage(c) ==
  /\ wState[c] = "spawned"
  /\ \E throwAt \in ThrowPasses : wPosted' = [wPosted EXCEPT ![c] = WorkerPosts(wMsg[c], throwAt)]
  /\ wState' = [wState EXCEPT ![c] = "ran"]
  /\ UNCHANGED <<wMsg, delivered, promise, settleCalls, extracted, progressLog>>
  /\ UNCHANGED <<fnVars, appVars, svcVars, hookVars, callVars>>

\* resolve(...) or reject(...) of the wrapper's promise
Settle(c, to) ==
  /\ settleCalls' = [settleCalls EXCEPT ![c] = @ + 1]
  /\ promise' = [promise EXCEPT ![c] = IF @ = "pending" THEN to ELSE @]

\* worker.onerror: the worker failed to start
WorkerOnError(c) ==
  /\ wState[c] = "spawned"
  /\ wState' = [wState EXCEPT ![c] = "terminated"]
  /\ Settle(c, "rejected")
  /\ Fail(c, ExtractError)
  /\ UNCHANGED <<wMsg, wPosted, delivered, extracted, progressLog>>
  /\ UNCHANGED <<callFile, callPrediction, audioCtx>>
  /\ UNCHANGED <<fnVars, appVars, svcVars>>

\* worker.onmessage on the main thread for the next posted message, and
\* what the hook does when the promise settles
Deliver(c) ==
  /\ wState[c] = "ran"
  /\ delivered[c] < Len(wPosted[c])
  /\ delivered' = [delivered EXCEPT ![c] = @ + 1]
  /\ LET msg == wPosted[c][delivered[c] + 1]
     IN CASE msg.type = "PROGRESS" ->
               /\ progressLog' = [progressLog EXCEPT ![c] = Append(@, msg.percent)]
               /\ progressState' = Progress(MapProgress(msg.percent), msg.stage)
               /\ UNCHANGED <<wState, promise, settleCalls, extracted>>
               /\ UNCHANGED <<isLoading, isPredicting, error, result, isModelLoaded,
                              pendingResets, callPc, callStages, callOutcome>>
          [] msg.type = "RESULT" ->
               /\ wState' = [wState EXCEPT ![c] = "terminated"]
               /\ Settle(c, "resolved")
               /\ extracted' = [extracted EXCEPT ![c] =
                                  IF promise[c] = "pending"
                                  THEN [isNull |-> FALSE, features |-> msg.features,
                                        timeSeries |-> msg.timeSeries]
                                  ELSE @]
               /\ progressState' = Progress(80, "Classifying scene...")
               /\ callPc' = [callPc EXCEPT ![c] = "classifying"]
               /\ callStages' = [callStages EXCEPT ![c] = Append(@, "Classifying")]
               /\ UNCHANGED <<isLoading, isPredicting, error, result, isModelLoaded,
                              pendingResets, callOutcome, progressLog>>
          [] OTHER ->
               /\ wState' = [wState EXCEPT ![c] = "terminated"]
               /\ Settle(c, "rejected")
               /\ Fail(c, ExtractError)
               /\ UNCHANGED <<extracted, progressLog>>
  /\ UNCHANGED <<wMsg, wPosted, callFile, callPrediction, audioCtx>>
  /\ UNCHANGED <<fnVars, appVars, svcVars>>

\* await delay(150); prediction = await mlModelService.predict(features)
Classify(c) ==
  /\ callPc[c] = "classifying"
  /\ LET prediction == Predict(extracted[c].features)
     IN IF prediction.state = "ok"
        THEN /\ callPrediction' = [callPrediction EXCEPT ![c] = prediction]
             /\ progressState' = Progress(100, "Complete!")
             /\ callPc' = [callPc EXCEPT ![c] = "completing"]
             /\ UNCHANGED <<isLoading, isPredicting, error, result, isModelLoaded,
                            pendingResets, callStages, callOutcome>>
        ELSE /\ Fail(c, ClassifyError)
             /\ UNCHANGED callPrediction
  /\ UNCHANGED <<callFile, audioCtx>>
  /\ UNCHANGED <<fnVars, appVars, svcVars, workerVars>>

\* await delay(200); setResult; setError(null); finally
Complete(c) ==
  /\ callPc[c] = "completing"
  /\ result' = [isNull |-> FALSE, call |-> c,
                sceneType |-> callPrediction[c].sceneType,
                confidence |-> callPrediction[c].confidence,
                probabilities |-> callPrediction[c].probabilities,
                features |-> extracted[c].features,
                timeSeries |-> extracted[c].timeSeries,
                audioDuration |-> wMsg[c].duration]
  /\ error' = Null
  /\ isPredicting' = FALSE
  /\ pendingResets' = pendingResets + 1
  /\ callPc' = [callPc EXCEPT ![c] = "done"]
  /\ callOutcome' = [callOutcome EXCEPT ![c] = "result"]
  /\ callStages' = [callStages EXCEPT ![c] = Append(@, "Complete")]
  /\ UNCHANGED <<isLoading, isModelLoaded, progressState, callFile, callPrediction, audioCtx>>
  /\ UNCHANGED <<fnVars, appVars, svcVars, workerVars>>

\* the timer of finally: setProgressState({ progress: 0, stage: '' })
ResetProgress ==
  /\ pendingResets > 0
  /\ pendingResets' = pendingResets - 1
  /\ progressState' = Progress(0, "")
  /\ UNCHANGED <<isLoading, isPredicting, error, result, isModelLoaded>>
  /\ UNCHANGED <<fnVars, appVars, svcVars, callVars, workerVars>>

\* clearError (the error display's dismiss button)
ClearError ==
  /\ error # Null
  /\ error' = Null
  /\ UNCHANGED <<isLoading, isPredicting, result, isModelLoaded, progressState, pendingResets>>
  /\ UNCHANGED <<fnVars, appVars, svcVars, callVars, workerVars>>

\* what the event loop runs by itself for call c
CallStep(c) ==
  \/ ReadDone(c) \/ DecodeStart(c) \/ DecodeDone(c) \/ CloseDone(c)
  \/ WorkerOnMessage(c) \/ WorkerOnError(c) \/ Deliver(c)
  \/ Classify(c) \/ Complete(c)

LoadStep(i) ==
  \/ LoadModelFile(i) \/ LoadScaler(i) \/ LoadFeatureNames(i) \/ LoadSceneTypes(i)
  \/ InitializeModelDone(i)

Next ==
  \/ \E i \in Inits : InitializeModel(i) \/ LoadStep(i)
  \/ \E c \in Calls : (\E file \in Files : StartCall(c, file)) \/ CallStep(c)
  \/ ResetProgress
  \/ ClearError

Spec == Init /\ [][Next]_vars

\* The calls alone, made before any initializeModel call or after the first
\* one has loaded the model.
CallsInit ==
  /\ FnIdle
  /\ CallsIdle
  /\ AppIdle
  /\ \E loaded \in BOOLEAN :
       /\ svc = IF loaded THEN LoadedService ELSE NoService
       /\ initPc = [i \in Inits |-> IF loaded /\ i = 1 THEN "done" ELSE "idle"]
       /\ isModelLoaded = loaded

CallsNext ==
  \/ \E c \in Calls : (\E file \in CallFiles : StartCall(c, file)) \/ CallStep(c)
  \/ ResetProgress
  \/ ClearError

\* the continuations and message handlers of call c on the main thread
MainThreadStep(c) ==
  \/ ReadDone(c) \/ DecodeStart(c) \/ DecodeDone(c) \/ CloseDone(c)
  \/ WorkerOnError(c) \/ Deliver(c) \/ Classify(c) \/ Complete(c)

\* the worker of call c takes its EXTRACT message and runs self.onmessage
WorkerRuns(c) == wState[c] = "spawned" /\ wState' = [wState EXCEPT ![c] = "ran"]

\* The event loop runs every continuation whose await has settled, the
\* browser settles every read, decode and worker message, and a spawned
\* worker runs its handler; the user need not act.
FairCalls ==
  /\ CallsInit
  /\ [][CallsNext]_vars
  /\ \A c \in Calls : WF_vars(MainThreadStep(c)) /\ WF_wState(WorkerRuns(c))

\* ------------------------------------------------------------------------
\* App: the history of analysed tracks and audioStorageService
\* ------------------------------------------------------------------------
\* how many tracks earlier sessions have left in the object store
StoredBefore == {0, MAX_STORED_FILES - 1, MAX_STORED_FILES}

\* one record of the object store (audioBlob is the file, by its name)
StoreRecord(id, file, storedAt) == [id |-> id, file |-> file, storedAt |-> storedAt]

\* the result state of the hook: resultFile is the file predictSceneType was
\* called with, call the call that set it (below 0: an earlier session)
ResultOf(call, resultFile) == [isNull |-> FALSE, call |-> call, resultFile |-> resultFile]

\* newTrack of the add-track effect; storageAvailable is true
NewTrack(id, file, res) ==
  [id |-> id, fileName |-> file, result |-> res, hasStoredAudio |-> TRUE]

\* trackData of a track stored by an earlier session
StoredTrack(id) == NewTrack(id, "a", ResultOf(0 - id, "a"))

\* Date.now() of the track the effect creates: later than every earlier one
NextTrackId == CHOOSE id \in TrackIds : storePc[id].at = "none" /\ \A j \in 1..(id - 1) : storePc[j].at # "none"

\* Date.now() of a put: later than every earlier put
Now == 1 + Cardinality({id \in TrackIds : storePc[id].at = "done"})

\* what the cursor over the storedAt index deletes: the first k records
Oldest(records, k) ==
  {r \in records : Cardinality({q \in records : q.storedAt < r.storedAt}) < k}

\* audioStorage.getAudioFile(id): the stored file, or null
getAudioFile(id) ==
  IF \E r \in store : r.id = id THEN (CHOOSE r \in store : r.id = id).file ELSE NoFile

\* the state after the mount effect: the stored tracks, newest first, and
\* the model loaded
AppInit ==
  /\ FnIdle
  /\ CallsIdle
  /\ svc = LoadedService
  /\ initPc = [i \in Inits |-> IF i = 1 THEN "done" ELSE "idle"]
  /\ isModelLoaded = TRUE
  /\ selectedFile = NoFile
  /\ selectedTrackId = 0
  /\ lastToastResult = Null
  /\ \E n \in StoredBefore :
       /\ store = {StoreRecord(id, "a", id) : id \in 1..n}
       /\ trackHistory = [i \in 1..n |-> StoredTrack(n + 1 - i)]
       /\ storePc = [id \in TrackIds |-> IF id <= n THEN StoreAt("done", 0, "a") ELSE StoreAt("none", 0, NoFile)]

\* the add-track effect, run after a render with this result, this selected
\* file and this selected track; storeTrack is started and not awaited
AddTrack(res, file, trackId) ==
  IF ~res.isNull /\ file # NoFile /\ lastToastResult # res
  THEN /\ lastToastResult' = res
       /\ trackHistory' = <<NewTrack(NextTrackId, file, res)>> \o trackHistory
       /\ selectedTrackId' = NextTrackId
       /\ storePc' = [storePc EXCEPT ![NextTrackId] = StoreAt("count", 0, file)]
  ELSE /\ selectedTrackId' = trackId
       /\ UNCHANGED <<trackHistory, lastToastResult, storePc>>

\* handleFileChange and handleFileDrop: setSelectedFile(file),
\* setSelectedTrackId(null), then predictSceneType(file) up to its first await, then the effect. The drop
\* handler is not disabled while a call is running.
AppSelectFile(c, file) ==
  /\ callPc[c] = "idle"
  /\ \A j \in Calls : j < c => callPc[j] # "idle"
  /\ selectedFile' = file
  /\ callFile' = [callFile EXCEPT ![c] = file]
  /\ callPc' = [callPc EXCEPT ![c] = "reading"]
  /\ error' = Null
  /\ isPredicting' = TRUE
  /\ AddTrack(result, file, 0)
  /\ UNCHANGED <<isLoading, result, isModelLoaded, progressState, pendingResets>>
  /\ UNCHANGED <<callStages, callOutcome, callPrediction, audioCtx, store>>
  /\ UNCHANGED <<fnVars, svcVars, workerVars>>

\* handleRetry: retryPrediction(selectedFile) from the error display
AppRetry(c) ==
  /\ ~error.isNull
  /\ selectedFile # NoFile
  /\ callPc[c] = "idle"
  /\ \A j \in Calls : j < c => callPc[j] # "idle"
  /\ callFile' = [callFile EXCEPT ![c] = selectedFile]
  /\ callPc' = [callPc EXCEPT ![c] = "reading"]
  /\ error' = Null
  /\ isPredicting' = TRUE
  /\ UNCHANGED <<isLoading, result, isModelLoaded, progressState, pendingResets>>
  /\ UNCHANGED <<callStages, callOutcome, callPrediction, audioCtx>>
  /\ UNCHANGED <<fnVars, svcVars, workerVars, appVars>>

\* predictSceneType of call c reaches setResult and its finally, then the
\* effect runs with the new result (the steps before are CallStep's and
\* leave the App's state alone)
AppAnalysisDone(c) ==
  /\ callPc[c] = "reading"
  /\ result' = ResultOf(c, callFile[c])
  /\ error' = Null
  /\ isPredicting' = FALSE
  /\ callPc' = [callPc EXCEPT ![c] = "done"]
  /\ callOutcome' = [callOutcome EXCEPT ![c] = "result"]
  /\ AddTrack(result', selectedFile, selectedTrackId)
  /\ UNCHANGED <<isLoading, isModelLoaded, progressState, pendingResets>>
  /\ UNCHANGED <<callFile, callStages, callPrediction, audioCtx, selectedFile, store>>
  /\ UNCHANGED <<fnVars, svcVars, workerVars>>

\* predictSceneType of call c throws: its catch and finally
AppAnalysisFailed(c) ==
  /\ callPc[c] = "reading"
  /\ error' = CatchError(DecodeError)
  /\ isPredicting' = FALSE
  /\ callPc' = [callPc EXCEPT ![c] = "done"]
  /\ callOutcome' = [callOutcome EXCEPT ![c] = "error"]
  /\ UNCHANGED <<isLoading, result, isModelLoaded, progressState, pendingResets>>
  /\ UNCHANGED <<callFile, callStages, callPrediction, audioCtx>>
  /\ UNCHANGED <<fnVars, svcVars, workerVars, appVars>>

\* the tracks the user clicks or removes: the newest or the oldest of the
\* history
Clickable ==
  IF Len(trackHistory) = 0 THEN {}
  ELSE {trackHistory[1].id, trackHistory[Len(trackHistory)].id}

\* handleSelectTrack: a click on a track of the history
AppSelectTrack(id) ==
  /\ id \in Clickable
  /\ selectedTrackId' = id
  /\ selectedFile' = NoFile
  /\ error' = Null
  /\ UNCHANGED <<isLoading, isPredicting, result, isModelLoaded, progressState, pendingResets>>
  /\ UNCHANGED <<trackHistory, lastToastResult, store, storePc>>
  /\ UNCHANGED <<fnVars, svcVars, callVars, workerVars>>

\* storeTrack(id): enforceStorageLimit reads the count in a transaction of
\* its own
StoreCount(id) ==
  /\ storePc[id].at = "count"
  /\ storePc' = [storePc EXCEPT ![id] =
                   IF Cardinality(store) < MAX_STORED_FILES THEN StoreAt("put", 0, @.audioFile)
                   ELSE StoreAt("evict", Cardinality(store) - MAX_STORED_FILES + 1,
                                @.audioFile)]
  /\ UNCHANGED <<selectedFile, trackHistory, selectedTrackId, lastToastResult, store>>
  /\ UNCHANGED <<fnVars, svcVars, hookVars, callVars, workerVars>>

\* storeTrack(id): enforceStorageLimit deletes the oldest records in a
\* second transaction
StoreEvict(id) ==
  /\ storePc[id].at = "evict"
  /\ store' = store \ Oldest(store, storePc[id].toDelete)
  /\ storePc' = [storePc EXCEPT ![id] = StoreAt("put", 0, @.audioFile)]
  /\ UNCHANGED <<selectedFile, trackHistory, selectedTrackId, lastToastResult>>
  /\ UNCHANGED <<fnVars, svcVars, hookVars, callVars, workerVars>>

\* storeTrack(id): the put transaction completes
StorePut(id) ==
  /\ storePc[id].at = "put"
  /\ store' = {r \in store : r.id # id} \cup {StoreRecord(id, storePc[id].audioFile, Now)}
  /\ storePc' = [storePc EXCEPT ![id] = StoreAt("done", 0, @.audioFile)]
  /\ UNCHANGED <<selectedFile, trackHistory, selectedTrackId, lastToastResult>>
  /\ UNCHANGED <<fnVars, svcVars, hookVars, callVars, workerVars>>

\* storeTrack(id): the put transaction fails (the quota), and the catch of
\* the effect takes the flag back
StorePutFails(id) ==
  /\ storePc[id].at = "put"
  /\ storePc' = [storePc EXCEPT ![id] = StoreAt("failed", 0, @.audioFile)]
  /\ trackHistory' = [i \in 1..Len(trackHistory) |->
                        IF trackHistory[i].id = id
                        THEN [trackHistory[i] EXCEPT !.hasStoredAudio = FALSE]
                        ELSE trackHistory[i]]
  /\ UNCHANGED <<selectedFile, selectedTrackId, lastToastResult, store>>
  /\ UNCHANGED <<fnVars, svcVars, hookVars, callVars, workerVars>>

\* removeTrack(id): deleteTrack, then the track leaves the history
AppRemoveTrack(id) ==
  /\ id \in Clickable
  /\ store' = {r \in store : r.id # id}
  /\ trackHistory' = SelectSeq(trackHistory, LAMBDA t : t.id # id)
  /\ selectedTrackId' = IF selectedTrackId = id THEN 0 ELSE selectedTrackId
  /\ selectedFile' = IF selectedTrackId = id THEN NoFile ELSE selectedFile
  /\ UNCHANGED <<lastToastResult, storePc>>
  /\ UNCHANGED <<fnVars, svcVars, hookVars, callVars, workerVars>>

\* clearAllTracks
AppClearAll ==
  /\ Len(trackHistory) > 0
  /\ store' = {}
  /\ trackHistory' = <<>>
  /\ selectedTrackId' = 0
  /\ selectedFile' = NoFile
  /\ error' = Null
  /\ UNCHANGED <<isLoading, isPredicting, result, isModelLoaded, progressState, pendingResets>>
  /\ UNCHANGED <<lastToastResult, storePc>>
  /\ UNCHANGED <<fnVars, svcVars, callVars, workerVars>>

AppNext ==
  \/ \E c \in Calls :
       \/ \E file \in {"a", "b"} : AppSelectFile(c, file)
       \/ AppRetry(c)
       \/ AppAnalysisDone(c)
       \/ AppAnalysisFailed(c)
  \/ \E id \in TrackIds :
       \/ AppSelectTrack(id) \/ AppRemoveTrack(id)
       \/ StoreCount(id) \/ StoreEvict(id) \/ StorePut(id) \/ StorePutFails(id)
  \/ AppClearAll

AppSpec == AppInit /\ [][AppNext]_vars

\* ========================================================================
\* Claims
\* ========================================================================
IndexOfLabel(l) == CHOOSE i \in 1..Len(SceneLabels) : SceneLabels[i] = l

RECURSIVE SumProbabilities(_, _)
\* the sum of the probabilities of labels i.. as a fraction over their
\* common denominator
SumProbabilities(probabilities, i) ==
  IF i > Len(SceneLabels) THEN Rat(0, probabilities[SceneLabels[1]].d)
  ELSE Rat(probabilities[SceneLabels[i]].n + SumProbabilities(probabilities, i + 1).n,
           probabilities[SceneLabels[i]].d)

VisitedKinds(msg) ==
  {FrameAt(msg.signal, FrameLoop(msg.signal.len, 0)[k]) : k \in 1..Len(FrameLoop(msg.signal.len, 0))}

\* C1: every RESULT the worker posts carries a feature vector of exactly 44
\* elements, whatever the signal's sample count, sample rate and per-frame
\* values (dropped frames included), and predict answers a vector of any
\* other length with an error instead of a classification.
C1_FeatureVectorHas44 ==
  /\ \A i \in 1..Len(fnPosts) :
       fnPosts[i].type = "RESULT" => Len(fnPosts[i].features) = 44
  /\ (fnOutput.state # "none" /\ Len(fnInput) # 44) => fnOutput.state = "error"

\* C1 witness: a RESULT for a signal with a visited frame whose values were
\* all dropped, and predict has rejected that vector with one element less.
C1_Witness ==
  /\ fnMode = "extract"
  /\ fnPosts # <<>>
  /\ Last(fnPosts).type = "RESULT"
  /\ "glitch" \in VisitedKinds(fnMsg)
  /\ Len(fnInput) = 43
  /\ fnOutput.state = "error"

\* C2 (as claimed): for every 44-element input, predict returns one
\* probability per label, each >= 0, and the probabilities sum to 1.
C2_ProbabilitiesSumToOne ==
  (fnOutput.state = "ok" /\ Len(fnInput) = 44) =>
     /\ DOMAIN fnOutput.probabilities = LabelSet
     /\ \A l \in LabelSet : RatLe(Rat(0, 1), fnOutput.probabilities[l])
     /\ RatEq(SumProbabilities(fnOutput.probabilities, 1), Rat(1, 1))

\* C3: the sceneType predict returns has a maximal probability, and among
\* the labels that share the maximum it is the first in the label order.
C3_WinnerIsFirstArgmax ==
  fnOutput.state = "ok" =>
     /\ fnOutput.sceneType \in LabelSet
     /\ \A l \in LabelSet :
          RatLe(fnOutput.probabilities[l], fnOutput.probabilities[fnOutput.sceneType])
     /\ \A i \in 1..(IndexOfLabel(fnOutput.sceneType) - 1) :
          RatLt(fnOutput.probabilities[SceneLabels[i]],
                fnOutput.probabilities[fnOutput.sceneType])

\* C3 witness: two labels tie at a non-zero maximum and the first one won.
C3_Witness ==
  /\ fnOutput.state = "ok"
  /\ fnOutput.probabilities[fnOutput.sceneType].n > 0
  /\ \E l \in LabelSet \ {fnOutput.sceneType} :
       RatEq(fnOutput.probabilities[l], fnOutput.probabilities[fnOutput.sceneType])

\* C4 (as claimed): the confidence predict returns equals the probability
\* the returned mapping gives the reported label.
C4_ConfidenceIsWinnerProbability ==
  fnOutput.state = "ok" =>
     RatEq(fnOutput.confidence, fnOutput.probabilities[fnOutput.sceneType])

Range(seq) == {seq[i] : i \in 1..Len(seq)}

StrictlyIncreasing(seq) == \A i \in 1..(Len(seq) - 1) : seq[i] < seq[i + 1]

Settled == {"resolved", "rejected"}

\* C5 (as claimed): during a successful extraction call onProgress is
\* invoked exactly 8 times, once per feature pass, with integer percents in
\* [0,100] that strictly increase from each invocation to the next.
C5_OnProgressEightTimes ==
  \A c \in Calls :
    /\ StrictlyIncreasing(progressLog[c])
    /\ Range(progressLog[c]) \subseteq 0..100
    /\ promise[c] = "resolved" => Len(progressLog[c]) = NumPasses

\* C5 (amended): during a successful extraction call onProgress is invoked
\* exactly 9 times, once before each of the 8 feature passes and once more
\* before the features are assembled, with integer percents in [0,100] that
\* strictly increase from each invocation to the next.
C5_OnProgressNineTimes ==
  \A c \in Calls :
    /\ StrictlyIncreasing(progressLog[c])
    /\ Range(progressLog[c]) \subseteq 0..100
    /\ promise[c] = "resolved" => Len(progressLog[c]) = NumPasses + 1

\* C5 witness: an extraction has resolved after nine onProgress invocations.
C5_Witness ==
  \E c \in Calls : promise[c] = "resolved" /\ Len(progressLog[c]) = NumPasses + 1

\* the stage names of the passes: RMS, ZCR, centroid, rolloff, spread, MFCC,
\* contrast, chroma
PassOrder ==
  << "Analyzing energy...", "Analyzing texture...", "Analyzing brightness...",
     "Analyzing frequency shape...", "Analyzing spectral spread...", "Analyzing timbre...",
     "Analyzing harmonic contrast...", "Analyzing pitch content..." >>

C6_Protocol(c) ==
  /\ wPosted[c] # <<>> =>
       /\ Last(wPosted[c]).type \in {"RESULT", "ERROR"}
       /\ \A i \in 1..(Len(wPosted[c]) - 1) : wPosted[c][i].type = "PROGRESS"
       /\ \A i \in 1..(Len(wPosted[c]) - 1) :
            i <= NumPasses => wPosted[c][i].stage = PassOrder[i]
  /\ settleCalls[c] <= 1
  /\ promise[c] \in Settled <=> settleCalls[c] = 1
  /\ promise[c] \in Settled <=> wState[c] = "terminated"

\* C6: for each EXTRACT message the worker posts its PROGRESS messages in
\* pass order and then exactly one terminal message, RESULT or ERROR; the
\* wrapper's promise settles exactly once, the worker is terminated exactly
\* when it has settled, and onProgress is not invoked after it has settled.
C6_OrderedProgressThenOneTerminal ==
  /\ [](\A c \in Calls : C6_Protocol(c))
  /\ [][\A c \in Calls : promise[c] \in Settled => progressLog'[c] = progressLog[c]]_vars

\* C6 witness: a worker threw in its last pass; its ERROR has been handled
\* after eight onProgress invocations and the promise is rejected.
C6_Witness ==
  \E c \in Calls :
    /\ promise[c] = "rejected"
    /\ Len(progressLog[c]) = NumPasses
    /\ delivered[c] = Len(wPosted[c])

\* the stages of a call as predictSceneType announces them; a call that has
\* not announced one is idle
StageOrder == << "Loading", "Decoding", "Extracting", "Classifying", "Complete" >>

\* C7: within one predictSceneType call the stages occur only in the order
\* Idle, (Loading,) Decoding, Extracting, Classifying, Complete; extraction
\* starts only after decoding succeeded with a finite non-zero duration,
\* classification only after extraction resolved with a RESULT, a result is
\* published only after classification succeeded, and a failure moves the
\* call to Error without any later stage.
C7_StagesInOrder ==
  \A c \in Calls :
    /\ \E n \in 0..Len(StageOrder) :
         \/ callStages[c] = SubSeq(StageOrder, 1, n)
         \/ n < Len(StageOrder) /\ callStages[c] = Append(SubSeq(StageOrder, 1, n), "Error")
    /\ "Extracting" \in Range(callStages[c]) =>
         /\ audioCtx[c] = "closed"
         /\ IsFinite(wMsg[c].duration)
         /\ wMsg[c].duration # Num(0)
    /\ "Classifying" \in Range(callStages[c]) =>
         /\ promise[c] = "resolved"
         /\ wPosted[c][delivered[c]].type = "RESULT"
         /\ extracted[c] # Null
    /\ "Complete" \in Range(callStages[c]) => callPrediction[c].state = "ok"
    /\ (result # Null /\ result.call = c) => "Complete" \in Range(callStages[c])
    /\ "Error" \in Range(callStages[c]) => callPc[c] = "done" /\ callOutcome[c] = "error"

\* C7 witness: a call whose extraction failed went to Error from Extracting.
C7_Witness ==
  \E c \in Calls : callStages[c] = << "Loading", "Decoding", "Extracting", "Error" >>

DecodingMessage ==
  "Failed to decode audio file. The file may be corrupted or in an unsupported format."
ExtractingMessage == "Failed to analyze audio features. Please try a different file."
ClassifyingMessage == "AI classification failed. Please try again."

\* the messages a call can show when it fails where it stands
StageMessages(pc) ==
  CASE pc = "idle" -> {"AI model not loaded. Please wait or refresh the page."}
    [] pc = "reading" -> {"Failed to read audio file. The file may be corrupted."}
    [] pc = "decoding" -> {DecodingMessage}
    [] pc = "closing" -> {DecodingMessage, "Audio file appears to be empty or corrupted."}
    [] pc = "extracting" -> {ExtractingMessage}
    [] pc = "classifying" -> {ClassifyingMessage}
    [] OTHER -> {}

C8_Outcome(c) ==
  \/ /\ callOutcome'[c] = "result"
     /\ result' # Null /\ result'.call = c
     /\ error' = Null
  \/ /\ callOutcome'[c] \in {"error", "guard"}
     /\ error' # Null
     /\ error'.message \in StageMessages(callPc[c])
     /\ result' = result

\* C8: every predictSceneType call that starts eventually finishes, and at
\* the step it finishes it has exactly one outcome: a new result is set and
\* error is null, or error is set to the non-null error of the stage that
\* failed and no new result is set.
C8_EveryCallEndsWithOneOutcome ==
  /\ \A c \in Calls : (callPc[c] # "idle") ~> (callPc[c] = "done")
  /\ [][\A c \in Calls : (callPc[c] # "done" /\ callPc'[c] = "done") => C8_Outcome(c)]_vars

\* C8 witness: a call whose file could not be read has finished with an
\* error and without a result.
C8_Witness ==
  \E c \in Calls :
    /\ callPc[c] = "done"
    /\ callStages[c] = << "Loading", "Error" >>
    /\ error # Null
    /\ result = Null

\* C9 (as claimed): canRetry is true only for extraction and classification
\* failures; after an asset-load failure in initializeModel canRetry is
\* false.
C9_RetryOnlyForExtractionOrClassification ==
  error # Null =>
    /\ error.canRetry => error.message \in {ExtractingMessage, ClassifyingMessage}
    /\ error.type = "model" => ~error.canRetry

Populated(service) ==
  service.model /\ service.scaler /\ service.featureNames /\ service.sceneTypes = "set"

Unpopulated(service) ==
  ~service.model /\ ~service.scaler /\ ~service.featureNames /\ service.sceneTypes = "none"

\* C10 (as claimed): after a loadModel call returns, the model, the scaler
\* and the label list are all populated and isLoaded is true; after it
\* throws, none of them is populated; and once isLoaded is true a repeated
\* call fetches nothing and changes no field.
C10_LoadModelAtomicAndIdempotent ==
  /\ [](\A i \in Inits :
          /\ initPc[i] = "returned" => Populated(svc) /\ svc.isLoaded
          /\ initPc[i] = "threw" => Unpopulated(svc) /\ ~svc.isLoaded)
  /\ [][\A i \in Inits :
          (svc.isLoaded /\ initPc[i] = "idle" /\ initPc'[i] # "idle") =>
             initPc'[i] = "returned" /\ svc' = svc]_vars

\* C11 (as claimed): normalization fails with a length-mismatch error and
\* produces no output vector whenever the input vector, the scaler's mean
\* array or its scale array does not have exactly 44 elements.
C11_NormalizeRejectsOtherLengths ==
  (fnMode = "normalize" /\ fnRet.state # "none" /\ ~fnArgs.scaler.isNull) =>
     ((Len(fnArgs.features) # 44 \/ Len(fnArgs.scaler.mean) # 44
         \/ Len(fnArgs.scaler.scale) # 44) =>
        fnRet = Thrown("Feature length mismatch"))

\* C12: normalizeFeatures returns a vector of the length of its input whose
\* i-th element is (features[i] - mean[i]) / scale[i]; with mean equal to
\* the input vector and every scale equal to 1 it is all zero.
C12_NormalizeIsElementwise ==
  (fnMode = "normalize" /\ fnRet.state = "ok") =>
     /\ Len(fnRet.value) = Len(fnArgs.features)
     /\ \A i \in 1..Len(fnRet.value) :
          fnRet.value[i] = FDiv(FSub(fnArgs.features[i], ArrAt(fnArgs.scaler.mean, i)),
                                ArrAt(fnArgs.scaler.scale, i))
     /\ (/\ fnArgs.scaler.mean = fnArgs.features
         /\ \A i \in 1..Len(fnArgs.features) : ArrAt(fnArgs.scaler.scale, i) = FP(1)) =>
          \A i \in 1..Len(fnRet.value) : fnRet.value[i] = Num(0)

\* C12 witness: a 44-element vector normalized with itself as mean and unit
\* scales, and one normalized with another mean and scale 2.
C12_Witness ==
  /\ fnMode = "normalize"
  /\ fnRet.state = "ok"
  /\ Len(fnArgs.features) = 44
  /\ \/ /\ fnArgs.scaler.mean = fnArgs.features
        /\ fnArgs.scaler.scale = [i \in 1..44 |-> FP(1)]
     \/ /\ fnArgs.scaler.scale = [i \in 1..44 |-> FP(2)]
        /\ fnRet.value[3] = FP(10)

\* C13 (as claimed): a feature pass over N samples visits exactly
\* floor((N - 2048) / 512) + 1 frames when N >= 2048 and none when
\* N < 2048; frame k starts at 512 * k and never runs past the end.
C13_FramesVisited ==
  (fnMode = "extract" /\ fnPosts # <<>>) =>
     LET n == fnMsg.signal.len
         starts == FrameLoop(n, 0)
     IN /\ Len(starts) = IF n >= BUFFER_SIZE THEN ((n - BUFFER_SIZE) \div HOP_SIZE) + 1 ELSE 0
        /\ \A k \in 1..Len(starts) :
             starts[k] = HOP_SIZE * (k - 1) /\ starts[k] + BUFFER_SIZE <= n

ZeroSeries == <<Num(0)>>

\* C14: for a signal shorter than 2048 samples every one of the eight
\* passes returns [0] (per coefficient for MFCC, contrast and chroma), no
\* error is posted and the run ends with RESULT.
C14_ShortSignalGivesZeroSeries ==
  (fnMode = "extract" /\ fnPosts # <<>> /\ fnMsg.signal.len < BUFFER_SIZE) =>
     /\ Last(fnPosts).type = "RESULT"
     /\ \A i \in 1..Len(fnPosts) : fnPosts[i].type # "ERROR"
     /\ Last(fnPosts).timeSeries.rms = ZeroSeries
     /\ Last(fnPosts).timeSeries.zcr = ZeroSeries
     /\ Last(fnPosts).timeSeries.spectralCentroid = ZeroSeries
     /\ Last(fnPosts).timeSeries.spectralRolloff = ZeroSeries
     /\ extractFramedFeature(fnMsg.signal, "spectralSpread") = ZeroSeries
     /\ extractMFCCs(fnMsg.signal) = [j \in 1..13 |-> ZeroSeries]
     /\ extractSpectralContrast(fnMsg.signal) = [j \in 1..7 |-> ZeroSeries]
     /\ extractChroma(fnMsg.signal) = [j \in 1..12 |-> ZeroSeries]

\* C14 witness: the worker has run on a non-empty signal one sample short
\* of a frame.
C14_Witness ==
  /\ fnMode = "extract"
  /\ fnMsg.signal.len = BUFFER_SIZE - 1
  /\ fnPosts # <<>>
  /\ Last(fnPosts).type = "RESULT"

\* C15 (as claimed): a per-frame value that is NaN, +Infinity or -Infinity
\* is left out of its series, so for every signal with at least one full
\* frame no element of the feature vector is NaN or infinite.
C15_FeatureVectorIsFinite ==
  (fnMode = "extract" /\ fnPosts # <<>> /\ Last(fnPosts).type = "RESULT"
     /\ fnMsg.signal.len >= BUFFER_SIZE) =>
     /\ \A i \in 1..Len(Last(fnPosts).timeSeries.rms) : IsFinite(Last(fnPosts).timeSeries.rms[i])
     /\ \A i \in 1..Len(Last(fnPosts).features) : IsFinite(Last(fnPosts).features[i])

\* C16 (as claimed): the rms, zcr, spectralCentroid and spectralRolloff
\* series of timeSeries all have the same length.
C16_SeriesSameLength ==
  (fnMode = "extract" /\ fnPosts # <<>> /\ Last(fnPosts).type = "RESULT") =>
     LET ts == Last(fnPosts).timeSeries
     IN /\ Len(ts.zcr) = Len(ts.rms)
        /\ Len(ts.spectralCentroid) = Len(ts.rms)
        /\ Len(ts.spectralRolloff) = Len(ts.rms)

\* C17: every index of the posted vector holds the schema's statistic
\* (0 duration, 1 sample rate, 2 tempo, 3 beat count, 4 rms mean, 5 rms
\* std, 6 rms max, 7 zcr mean, 8 centroid mean, 9 centroid std, 10 rolloff
\* mean, 11 bandwidth mean, 12-24 MFCC means, 25-31 contrast means, 32-43
\* chroma means), and the classifier's answer is a function of the tempo,
\* rms mean, rms std and centroid mean at indices 2, 4, 5 and 8 alone.
\* Index i of the code is position i + 1 here.
C17_SchemaByIndex ==
  (fnMode = "extract" /\ fnPosts # <<>> /\ Last(fnPosts).type = "RESULT") =>
     LET f == Last(fnPosts).features
         ts == Last(fnPosts).timeSeries
         sg == fnMsg.signal
     IN /\ f[0 + 1] = fnMsg.duration
        /\ f[1 + 1] = FP(fnMsg.sampleRate)
        /\ f[2 + 1] = FP(ts.tempo)
        /\ f[3 + 1] = BeatCount(ts.tempo, fnMsg.duration)
        /\ f[4 + 1] = mean(ts.rms)
        /\ f[5 + 1] = std(ts.rms)
        /\ \A i \in 1..Len(ts.rms) : FGe(f[6 + 1], ts.rms[i]) \/ IsNaN(ts.rms[i])
        /\ \E i \in 1..Len(ts.rms) : f[6 + 1] = ts.rms[i]
        /\ f[7 + 1] = mean(ts.zcr)
        /\ f[8 + 1] = mean(ts.spectralCentroid)
        /\ f[9 + 1] = std(ts.spectralCentroid)
        /\ f[10 + 1] = mean(ts.spectralRolloff)
        /\ f[11 + 1] = mean(extractFramedFeature(sg, "spectralSpread"))
        /\ \A j \in 0..12 : f[12 + j + 1] = mean(extractMFCCs(sg)[j + 1])
        /\ \A j \in 0..6 : f[25 + j + 1] = mean(extractSpectralContrast(sg)[j + 1])
        /\ \A j \in 0..11 : f[32 + j + 1] = mean(extractChroma(sg)[j + 1])
        /\ (fnOutput.state # "none" /\ fnInput = f) =>
             fnOutput = Predict(Vector(44, f[2 + 1], f[4 + 1], f[5 + 1], f[8 + 1]))

\* C17 witness: a vector of loud and quiet frames, whose statistics differ
\* from group to group, has been posted and classified.
C17_Witness ==
  /\ fnMode = "extract"
  /\ fnPosts # <<>>
  /\ Last(fnPosts).type = "RESULT"
  /\ fnMsg.signal.kinds = <<"loud", "quiet", "loud">>
  /\ Len(Last(fnPosts).timeSeries.rms) = 3
  /\ fnInput = Last(fnPosts).features
  /\ fnOutput.state # "none"

\* the frames (0-based) of a series that lie after the skipped leading
\* frames and before the last one and are strict local peaks above
\* mean + 0.3 * std
TempoSkipped(sampleRate) == (2 * sampleRate) \div (10 * HOP_SIZE)

TempoPeaks(frames, sampleRate) ==
  LET th == FAdd(mean(frames), FScale(std(frames), 3, 10))
  IN {i \in 1..(Len(frames) - 2) :
        /\ i >= TempoSkipped(sampleRate)
        /\ FGt(frames[i + 1], th)
        /\ FGt(frames[i + 1], frames[i])
        /\ FGt(frames[i + 1], frames[i + 2])}

\* C18: estimateTempo returns exactly 120 whenever fewer than two onsets
\* can be detected: no peak, one peak, or peaks that all lie within the
\* minimum onset spacing of each other.
C18_FewOnsetsGive120 ==
  (fnMode = "tempo" /\ fnRet.state = "ok") =>
     LET P == TempoPeaks(fnArgs.rmsFrames, fnArgs.sampleRate)
     IN (\A i, j \in P : i - j <= TempoSkipped(fnArgs.sampleRate)) => fnRet.value = 120

\* C18 witness: 120 returned for a series with a single peak, and for an
\* empty one.
C18_Witness ==
  /\ fnMode = "tempo"
  /\ fnRet.state = "ok"
  /\ fnRet.value = 120
  /\ \/ Cardinality(TempoPeaks(fnArgs.rmsFrames, fnArgs.sampleRate)) = 1
     \/ fnArgs.rmsFrames = <<>>

RECURSIVE OctaveFold(_, _)
\* the fraction p / q halved while above 180, then doubled while below 80
OctaveFold(p, q) ==
  IF p > 180 * q THEN OctaveFold(p, 2 * q)
  ELSE IF p < 80 * q THEN OctaveFold(2 * p, q)
  ELSE <<p, q>>

\* round(p / q) for p, q > 0
RoundFraction(pq) == (2 * pq[1] + pq[2]) \div (2 * pq[2])

\* the peaks are at least two and lie exactly K frames apart
PeaksEvery(P, K) ==
  /\ Cardinality(P) >= 2
  /\ LET first == CHOOSE i \in P : \A j \in P : i <= j
     IN P = {first + K * m : m \in 0..(Cardinality(P) - 1)}

OwnMessage(c) == ExtractMessageOf(AudioBufferOf(callFile[c]))

\* C20: overlapping extraction calls each have a worker and a signal copy
\* of their own: the message a worker holds is the one made from its own
\* call's file, a worker is terminated only by its own call's handlers
\* (which settle the promise), and a resolved promise carries the features
\* and time series computed from its own call's signal.
C20_WorkersAreIsolated ==
  \A c \in Calls :
    /\ wState[c] \in {"spawned", "ran", "terminated"} => wMsg[c] = OwnMessage(c)
    /\ wState[c] = "terminated" => promise[c] # "pending"
    /\ promise[c] = "resolved" =>
         extracted[c] = [isNull |-> FALSE, features |-> FeaturesOf(OwnMessage(c)),
                         timeSeries |-> TimeSeriesOf(OwnMessage(c))]

\* C20 witness: the second call's promise has resolved with its own
\* features while the first call's worker, made earlier for another file,
\* is still delivering its messages.
C20_Witness ==
  /\ callFile[1] = "a"
  /\ callFile[2] = "b"
  /\ wState[1] = "ran"
  /\ delivered[1] >= 1
  /\ promise[1] = "pending"
  /\ promise[2] = "resolved"
  /\ extracted[2].features = FeaturesOf(OwnMessage(2))
  /\ extracted[2].features # FeaturesOf(OwnMessage(1))

\* C21: in every call that reaches extraction, the AudioContext made for
\* decoding is already closed when the extraction worker exists and holds
\* the signal.
C21_ContextClosedBeforeWorker ==
  \A c \in Calls : wState[c] # "none" => audioCtx[c] = "closed"

\* C21 witness: a worker has just been spawned and handed its signal.
C21_Witness ==
  \E c \in Calls : wState[c] = "spawned" /\ wMsg[c] # Null /\ audioCtx[c] = "closed"

\* C28 (as claimed): every AudioContext made by predictSceneType is closed
\* on every path through the call, so no finished call leaves one open.
C28_NoContextLeftOpen ==
  \A c \in Calls : callPc[c] = "done" => audioCtx[c] # "open"

RECURSIVE OnsetsAtLeastSpacing(_, _, _, _, _)
\* the frames from i to n - 2 marked when a peak is marked if it is the
\* first or at least minSpacing frames after the previous mark
OnsetsAtLeastSpacing(P, minSpacing, i, n, marked) ==
  IF i >= n - 1 THEN marked
  ELSE OnsetsAtLeastSpacing(P, minSpacing, i + 1, n,
         IF i \in P /\ (marked = <<>> \/ i - marked[Len(marked)] >= minSpacing)
         THEN Append(marked, i) ELSE marked)

\* the onsets estimateTempo marks in the series of the state
TempoOnsets ==
  OnsetLoop(fnArgs.rmsFrames,
            FAdd(mean(fnArgs.rmsFrames), FScale(std(fnArgs.rmsFrames), 3, 10)),
            TempoSkipped(fnArgs.sampleRate), TempoSkipped(fnArgs.sampleRate), <<>>)

\* C22 (as claimed): frame i is marked as an onset exactly when it is a
\* strict local peak above mean + 0.3 * std and either no onset is marked
\* yet or i - previousOnset >= minSpacing, so a peak exactly minSpacing
\* frames after the previous onset is marked.
C22_OnsetAtLeastMinSpacing ==
  (fnMode = "tempo" /\ fnRet.state = "ok") =>
     TempoOnsets = OnsetsAtLeastSpacing(TempoPeaks(fnArgs.rmsFrames, fnArgs.sampleRate),
                                        TempoSkipped(fnArgs.sampleRate),
                                        TempoSkipped(fnArgs.sampleRate),
                                        Len(fnArgs.rmsFrames), <<>>)

\* C23: estimateTempo ends with an integer in [60, 200]: the inter-onset
\* intervals it takes the median of are at least 1, so the tempo it folds
\* is positive and both loops exit, leaving a tempo within [80, 180]
\* whenever two onsets were found.
C23_TempoInRange ==
  (fnMode = "tempo" /\ fnRet.state = "ok") =>
     /\ fnRet.value \in 60..200
     /\ \A k \in 1..(Len(TempoOnsets) - 1) : TempoOnsets[k + 1] - TempoOnsets[k] >= 1
     /\ Len(TempoOnsets) >= 2 => fnRet.value \in 80..180

\* C23 witness: a tempo doubled more than once (peaks every 4 frames at
\* 1 Hz, 0.03 BPM before the loops) and one halved (8000 Hz).
C23_Witness ==
  /\ fnMode = "tempo"
  /\ fnRet.state = "ok"
  /\ Len(TempoOnsets) >= 2
  /\ fnArgs.sampleRate \in {1, 8000}
  /\ TempoOnsets[2] - TempoOnsets[1] = 4
  /\ fnRet.value \in 80..180

\* C24: a worker percent p in [0, 100] is shown as 40 + round(0.4 * p), an
\* integer in [40, 80] that does not decrease when p grows; the percents a
\* worker posts are therefore shown within [40, 80] and in rising order.
C24_MappedProgressInBand ==
  /\ (fnMode = "progress" /\ fnRet.state = "ok") =>
       /\ fnRet.value \in 40..80
       /\ 10 * (fnRet.value - 40) <= 4 * fnArgs.percent + 5
       /\ 4 * fnArgs.percent + 5 < 10 * (fnRet.value - 40) + 10
       /\ fnArgs.percent <= fnArgs.later => fnRet.value <= fnRet.laterValue
       /\ fnArgs.percent >= fnArgs.later => fnRet.value >= fnRet.laterValue
  /\ (fnMode = "extract" /\ fnPosts # <<>>) =>
       \A i \in 1..Len(fnPosts) :
         fnPosts[i].type = "PROGRESS" =>
           /\ MapProgress(fnPosts[i].percent) \in 40..80
           /\ \A j \in 1..i : fnPosts[j].type = "PROGRESS" =>
                MapProgress(fnPosts[j].percent) <= MapProgress(fnPosts[i].percent)

\* C24 witness: percent 99 mapped to 80, the same as percent 100.
C24_Witness ==
  /\ fnMode = "progress"
  /\ fnRet.state = "ok"
  /\ fnArgs.percent = 99
  /\ fnArgs.later = 100
  /\ fnRet.value = 80
  /\ fnRet.laterValue = 80

\* some predictSceneType call has started and has not yet set its result
\* or error
InFlight == \E c \in Calls : callPc[c] \notin {"idle", "done"}

\* C25 (as claimed): while an analysis is in flight the displayed progress
\* is an integer in [0, 100] and never decreases, also for a call started
\* while the previous call's delayed progress reset is still pending.
C25_ProgressNeverDecreasesInFlight ==
  [][(InFlight /\ InFlight') =>
       /\ progressState'.progress \in 0..100
       /\ progressState'.progress >= progressState.progress]_vars

\* C26 (as claimed): isPredicting is true in every state in which some
\* predictSceneType call has started and not yet finished, also when a
\* second call is started while the first is running and the first
\* finishes before the second.
C26_PredictingWhileInFlight == InFlight => isPredicting


\* C27: every track of the history pairs a prediction result with the name
\* and size of the file that result was computed from, and no result is in
\* the history twice, whatever uploads, drops, retries and track selections
\* came before, a second file selected during the first analysis included.
C27_TrackPairsResultWithItsFile ==
  /\ \A i \in 1..Len(trackHistory) :
       trackHistory[i].fileName = trackHistory[i].result.resultFile
  /\ \A i, j \in 1..Len(trackHistory) :
       trackHistory[i].result = trackHistory[j].result => i = j


\* no storeTrack call is between its start and its resolve or reject
StoresSettled == \A id \in TrackIds : storePc[id].at \in {"none", "done", "failed"}

\* C29: once every storeTrack call has resolved the store holds at most
\* MAX_STORED_FILES tracks, for any sequence of storeTrack, deleteTrack and
\* clearAllTracks calls, overlapping storeTrack calls included; the records an
\* eviction removes are those of smallest storedAt and never the record of
\* the track being written.
C29_StoreWithinLimit ==
  [][/\ StoresSettled' => Cardinality(store') <= MAX_STORED_FILES
     /\ \A id \in TrackIds :
          (storePc[id].at = "evict" /\ storePc'[id].at = "put") =>
            /\ \A gone \in store \ store' : \A kept \in store' : gone.storedAt < kept.storedAt
            /\ \A gone \in store \ store' : gone.id # id]_vars


\* C30: every track of the history whose hasStoredAudio is true has its audio
\* in the store (getAudioFile returns a file for it) once no store write is
\* under way, after any sequence of analyses, removals and clear-all, more
\* than MAX_STORED_FILES tracks stored and a failed store write included.
C30_StoredFlagMeansRetrievable ==
  StoresSettled =>
    \A i \in 1..Len(trackHistory) :
      trackHistory[i].hasStoredAudio => getAudioFile(trackHistory[i].id) # NoFile

=============================================================================
